---- MODULE Spec2Model ----
(***************************************************************************)
(* Unit09 worker: the in-memory job queue (services/worker/src/queue/      *)
(* jobQueue.ts), the stage handler registry (queue/jobHandlers.ts), the    *)
(* worker metrics (utils/metrics.ts) and the polling loop of               *)
(* services/worker/src/index.ts.                                           *)
(*                                                                         *)
(* One step of the model is one run-to-completion turn of the Node.js      *)
(* event loop: a timer firing of tick up to its first suspension, the      *)
(* settlement of one awaited stage call together with the continuation it  *)
(* resumes, one enqueue call, or the wall clock advancing.                 *)
(***************************************************************************)
EXTENDS Integers, Sequences, FiniteSets, TLC

(* ------------------------------- bounds -------------------------------- *)

MaxJobs == 2
MaxClock == 2
MaxTicks == 2
MaxConcurrency == 2

(* ------------------------------ constants ------------------------------ *)

\* jobQueue.ts: maxAttempts: 3
DefaultMaxAttempts == 3

\* `undefined` for the optional numeric fields startedAt / completedAt.
\* Date.now() is positive in every run, and `!job.startedAt` treats
\* undefined and 0 alike.
Unset == 0

\* jobTypes.ts: the closed enumeration JobType.
JobType ==
  {"observeRepo", "analyzeRepo", "decompose", "generateModules",
   "validateModules", "syncOnChain", "forkEvolution"}

\* A type string that is not a key of the handler registry.
UnknownType == "unknownType"

\* The types the environment enqueues in this model.
EnqueueTypes == {"observeRepo", "analyzeRepo", UnknownType}

\* The payloads the environment enqueues in this model (their repoKey).
Payloads == {"repoA"}

\* Values of Math.random().toString(16).slice(2) in this model.
RandVals == {"3fa9"}

VARIABLES
  jobs,               \* jobQueue.ts: const jobs: Job[]
  results,            \* jobQueue.ts: const results: Record<string, JobResult>
  activeJobs,         \* index.ts: let activeJobs
  jobsStarted,        \* metrics.jobsStarted
  jobsCompleted,      \* metrics.jobsCompleted
  jobsFailed,         \* metrics.jobsFailed
  activeGauge,        \* metrics.activeJobs
  inflight,           \* suspended tick invocations, in dispatch order
  log,                \* records written through the logger
  now,                \* Date.now()
  ticks,              \* number of timer firings so far
  maxConcurrentJobs   \* config.maxConcurrentJobs

\* The state of the worker process.
workerVars ==
  <<jobs, results, activeJobs, jobsStarted, jobsCompleted, jobsFailed,
    activeGauge, inflight, log, now, ticks, maxConcurrentJobs>>

VARIABLES
  calls,              \* the enqueue calls made so far, as (type, payload) pairs
  ret                 \* what the last call of the queue API returned

\* A caller of the queue API, as it sees the queue from outside.
callerVars == <<calls, ret>>

VARIABLES
  accounts,           \* the ledger: address -> stored record
  totalForks,         \* metrics account: totalForks
  txs,                \* instructions submitted and not yet executed
  outcomes            \* what each executed instruction returned, in order

\* The remote ledger and the instructions in flight to it.
ledgerVars == <<accounts, totalForks, txs, outcomes>>

VARIABLES
  callArgs,           \* the arguments of a library function under call
  callResult          \* what the call returned

\* One call of a pure library function.
callVars == <<callArgs, callResult>>

VARIABLES
  summary,            \* a LifecycleSummary
  applied             \* the summary it started as, and the events applied since

lifecycleVars == <<summary, applied>>

VARIABLES
  version,            \* a module's currentVersion
  bumps               \* the last bump made: the version it was given and the part

semverVars == <<version, bumps>>

VARIABLES
  apiJobs,            \* queueClient.ts: const jobs: Record<string, QueueJob>
  pipelines,          \* pipelineService.ts: runPipeline promises not yet settled
  apiLog,             \* records the API process writes for its pipeline jobs
  hits,               \* rateLimiter.ts: const hits: Record<string, HitInfo>
  served              \* the requests answered so far, and the last answer

\* The state of the API process.
apiVars == <<apiJobs, pipelines, apiLog, hits, served>>

\* Everything outside the worker process.
nonWorkerVars == <<callerVars, ledgerVars, callVars, lifecycleVars, semverVars, apiVars>>

vars == <<workerVars, nonWorkerVars>>

\* A value that stands for "nothing here": no call made, no record read.
Nothing == <<>>

(* ------------------------------ handlers ------------------------------- *)

\* jobHandlers.ts: the external stage calls each handler awaits, in order.
HandlerStages(type) ==
  CASE type = "observeRepo"     -> <<"observeCode">>
    [] type = "analyzeRepo"     -> <<"parseProject", "buildCodeGraph">>
    [] type = "decompose"       -> <<"parseProject", "buildCodeGraph", "decomposeModules">>
    [] type = "generateModules" -> <<"parseProject", "buildCodeGraph", "decomposeModules",
                                     "generateModuleArtifacts">>
    [] type = "validateModules" -> <<"parseProject", "buildCodeGraph", "decomposeModules",
                                     "validateModules">>
    [] type = "syncOnChain"     -> <<"syncOnChain">>
    [] type = "forkEvolution"   -> <<"runFullPipeline">>
    [] OTHER                    -> <<>>

\* Variant of the lookup without the missing-handler test.
HasHandlerAlways(type) == TRUE

\* index.ts: const handler = handlers[job.type]; if (!handler) ...
HasHandler(type) == type \in JobType

\* An external stage is opaque: its output is its input tagged with the
\* stage that produced it.
StageCall(stage, input) == Append(input, stage)

\* The value a handler passes to its first stage: payload.source.
PayloadSource(payload) == <<payload>>

\* jobHandlers.ts: return { success: true, output: ... }
HandlerResult(output) == [success |-> TRUE, output |-> output]

(* ------------------------------- queue --------------------------------- *)

\* jobQueue.ts enqueue: the id template `job-${Date.now()}-${Math.random()...}`
JobId(t, rnd) == <<"job", t, rnd>>

NewJob(type, payload, t, rnd) ==
  [id          |-> JobId(t, rnd),
   type        |-> type,
   payload     |-> payload,
   createdAt   |-> t,
   startedAt   |-> Unset,
   completedAt |-> Unset,
   attempts    |-> 0,
   maxAttempts |-> DefaultMaxAttempts]

\* Variant of next that looks at completedAt instead of startedAt.
QueueNextUncompleted(js) ==
  IF \E i \in 1..Len(js) : js[i].completedAt = Unset
  THEN CHOOSE i \in 1..Len(js) :
         /\ js[i].completedAt = Unset
         /\ \A k \in 1..(i - 1) : js[k].completedAt # Unset
  ELSE 0

\* Variant of next that returns the newest unstarted job.
QueueNextNewest(js) ==
  IF \E i \in 1..Len(js) : js[i].startedAt = Unset
  THEN CHOOSE i \in 1..Len(js) :
         /\ js[i].startedAt = Unset
         /\ \A k \in (i + 1)..Len(js) : js[k].startedAt # Unset
  ELSE 0

\* Variant of next that returns the head of the list, started or not.
QueueNextHead(js) == IF js # <<>> THEN 1 ELSE 0

\* Variant of next that passes over the jobs whose type has no handler.
QueueNextRunnable(js) ==
  IF \E i \in 1..Len(js) : js[i].startedAt = Unset /\ HasHandler(js[i].type)
  THEN CHOOSE i \in 1..Len(js) :
         /\ js[i].startedAt = Unset /\ HasHandler(js[i].type)
         /\ \A k \in 1..(i - 1) : ~(js[k].startedAt = Unset /\ HasHandler(js[k].type))
  ELSE 0

\* jobQueue.ts next: jobs.find((job) => !job.startedAt), as an index into
\* jobs (0 when find returns undefined).
QueueNext(js) ==
  IF \E i \in 1..Len(js) : js[i].startedAt = Unset
  THEN CHOOSE i \in 1..Len(js) :
         /\ js[i].startedAt = Unset
         /\ \A k \in 1..(i - 1) : js[k].startedAt # Unset
  ELSE 0

\* Variant of list that leaves out the jobs already started.
QueueListUnstarted(js) == SelectSeq(js, LAMBDA j : j.startedAt = Unset)

\* jobQueue.ts list: [...jobs]
QueueList(js) == js

\* Variant of markCompleted that stores the result and forgets the stamp.
MarkCompletedJobsNoStamp(js, i, t) == js

\* jobQueue.ts markCompleted, on the job at index i.
MarkCompletedJobs(js, i, t) == [js EXCEPT ![i].completedAt = t]

MarkCompletedResults(rs, id, result) ==
  [x \in (DOMAIN rs) \cup {id} |-> IF x = id THEN result ELSE rs[x]]

\* jobQueue.ts getJobResult
GetJobResult(rs, id) == IF id \in DOMAIN rs THEN <<rs[id]>> ELSE <<>>

(* -------------------------------- init --------------------------------- *)

\* Parts of the state a specification does not exercise stay as they start.
NoCall == [op |-> "none", args |-> <<>>, value |-> 0, turn |-> FALSE]
CallerIdle == calls = <<>> /\ ret = NoCall
LedgerIdle == accounts = <<>> /\ totalForks = 0 /\ txs = <<>> /\ outcomes = <<>>
CallIdle == callArgs = Nothing /\ callResult = Nothing
LifecycleIdle == summary = Nothing /\ applied = Nothing
SemverIdle == version = Nothing /\ bumps = <<>>
ApiIdle ==
  /\ apiJobs = <<>> /\ pipelines = <<>> /\ apiLog = {}
  /\ hits = <<>> /\ served = Nothing

Init ==
  /\ CallerIdle /\ LedgerIdle /\ CallIdle /\ LifecycleIdle /\ SemverIdle
  /\ ApiIdle
  /\ jobs = <<>>
  /\ results = <<>>
  /\ activeJobs = 0
  /\ jobsStarted = 0
  /\ jobsCompleted = 0
  /\ jobsFailed = 0
  /\ activeGauge = 0
  /\ inflight = <<>>
  /\ log = {}
  /\ now = 1
  /\ ticks = 0
  /\ maxConcurrentJobs \in 1..MaxConcurrency

(* ----------------------------- environment ---------------------------- *)

\* Some caller of the queue runs enqueue(type, payload); Math.random() yields rnd.
Enqueue(type, payload, rnd) ==
  /\ UNCHANGED nonWorkerVars
  /\ Len(jobs) < MaxJobs
  /\ jobs' = Append(jobs, NewJob(type, payload, now, rnd))
  /\ UNCHANGED <<results, activeJobs, jobsStarted, jobsCompleted, jobsFailed,
                 activeGauge, inflight, log, now, ticks, maxConcurrentJobs>>

\* The wall clock moves on between two turns of the event loop.
ClockAdvance ==
  /\ UNCHANGED nonWorkerVars
  /\ now < MaxClock
  /\ now' = now + 1
  /\ UNCHANGED <<jobs, results, activeJobs, jobsStarted, jobsCompleted, jobsFailed,
                 activeGauge, inflight, log, ticks, maxConcurrentJobs>>

(* ------------------------------ worker loop ---------------------------- *)

\* Variant of the ceiling test that lets one job too many through.
AtCeilingOffByOne(active, ceiling) == active > ceiling

\* Variant of the ceiling test of a loop that waits for the job in flight.
AtCeilingSerial(active, ceiling) == active >= 1

\* index.ts: if (activeJobs >= config.maxConcurrentJobs) return;
AtCeiling(active, ceiling) == active >= ceiling

\* index.ts: job.startedAt = Date.now();
StartJob(js, i, t) == [js EXCEPT ![i].startedAt = t]

\* Variant of the catch block that also stamps the job as completed.
FailJobAndStamp(js, i) == [js EXCEPT ![i].attempts = @ + 1, ![i].completedAt = 1]

\* Variant of the catch block that hands the job back for another attempt.
FailJobAndRequeue(js, i) == [js EXCEPT ![i].attempts = @ + 1, ![i].startedAt = Unset]

\* index.ts catch block: job.attempts += 1;
FailJob(js, i) == [js EXCEPT ![i].attempts = @ + 1]

\* A log record: level, message, and the job id / job type bindings it
\* carries ("-" for a binding the call does not pass).
LogRecord(level, msg, id, type) ==
  [level |-> level, msg |-> msg, jobId |-> id, type |-> type]

\* The invocation a dispatch leaves suspended: the handler has logged its
\* entry and awaits its first stage.
NewInvocation(i, job) ==
  [job |-> i, pc |-> 1, val |-> PayloadSource(job.payload)]

\* tick, first return: the ceiling is reached.
TickBusy ==
  /\ AtCeiling(activeJobs, maxConcurrentJobs)
  /\ UNCHANGED <<jobs, results, activeJobs, jobsStarted, jobsCompleted, jobsFailed,
                 activeGauge, inflight, log>>

\* tick, second return: queue.next() found nothing.
TickEmpty ==
  /\ ~AtCeiling(activeJobs, maxConcurrentJobs)
  /\ QueueNext(jobs) = 0
  /\ UNCHANGED <<jobs, results, activeJobs, jobsStarted, jobsCompleted, jobsFailed,
                 activeGauge, inflight, log>>

\* tick, third return: no handler registered for the job's type.
TickNoHandler ==
  /\ ~AtCeiling(activeJobs, maxConcurrentJobs)
  /\ QueueNext(jobs) # 0
  /\ LET job == jobs[QueueNext(jobs)] IN
       /\ ~HasHandler(job.type)
       /\ log' = log \cup {LogRecord("error", "No handler for job type", job.id, job.type)}
  /\ UNCHANGED <<jobs, results, activeJobs, jobsStarted, jobsCompleted, jobsFailed,
                 activeGauge, inflight>>

\* The invocations a burst leaves suspended, oldest job first.
RECURSIVE BurstInvocations(_, _)
BurstInvocations(js, S) ==
  IF S = {} THEN <<>>
  ELSE LET i == CHOOSE x \in S : \A y \in S : x <= y
       IN  <<NewInvocation(i, js[i])>> \o BurstInvocations(js, S \ {i})

\* Variant of the dispatch that fills every free slot in one tick.
TickDispatchBurst ==
  /\ ~AtCeiling(activeJobs, maxConcurrentJobs)
  /\ QueueNext(jobs) # 0
  /\ HasHandler(jobs[QueueNext(jobs)].type)
  /\ LET free == maxConcurrentJobs - activeJobs
         S    == {i \in 1..Len(jobs) :
                    /\ jobs[i].startedAt = Unset
                    /\ \A k \in 1..i : HasHandler(jobs[k].type)
                    /\ Cardinality({k \in 1..i : jobs[k].startedAt = Unset}) <= free}
     IN
       /\ jobs' = [i \in 1..Len(jobs) |->
                     IF i \in S THEN [jobs[i] EXCEPT !.startedAt = now] ELSE jobs[i]]
       /\ activeJobs' = activeJobs + Cardinality(S)
       /\ jobsStarted' = jobsStarted + Cardinality(S)
       /\ activeGauge' = activeJobs + Cardinality(S)
       /\ inflight' = inflight \o BurstInvocations(jobs, S)
       /\ log' = log \cup {LogRecord("info", "Running job", jobs[i].id, "-") : i \in S}
  /\ UNCHANGED <<results, jobsCompleted, jobsFailed>>

\* tick, dispatch: the job is started and its handler runs up to its first await.
TickDispatch ==
  /\ ~AtCeiling(activeJobs, maxConcurrentJobs)
  /\ QueueNext(jobs) # 0
  /\ LET i   == QueueNext(jobs)
         job == jobs[i] IN
       /\ HasHandler(job.type)
       /\ jobs' = StartJob(jobs, i, now)
       /\ activeJobs' = activeJobs + 1
       /\ jobsStarted' = jobsStarted + 1
       /\ activeGauge' = activeJobs + 1
       /\ inflight' = Append(inflight, NewInvocation(i, job))
       /\ log' = log \cup {LogRecord("info", "Running job", job.id, "-")}
  /\ UNCHANGED <<results, jobsCompleted, jobsFailed>>

\* index.ts: setInterval(tick, config.pollIntervalMs) fires once.
Tick ==
  /\ UNCHANGED nonWorkerVars
  /\ ticks < MaxTicks
  /\ ticks' = ticks + 1
  /\ UNCHANGED <<now, maxConcurrentJobs>>
  /\ \/ TickBusy
     \/ TickEmpty
     \/ TickNoHandler
     \/ TickDispatch

\* The sequence s without its k-th element.
RemoveAt(s, k) == [x \in 1..(Len(s) - 1) |-> IF x < k THEN s[x] ELSE s[x + 1]]

\* Variant of the finally block that keeps the slot.
ReleaseSlotNever(active) == active

\* Variant of the release that runs in the catch block and in the finally block.
ReleaseSlotTwice(active) == active - 2

\* index.ts finally block: activeJobs -= 1; metrics.activeJobs.set(activeJobs);
ReleaseSlot(active) == active - 1

\* Variant of the continuation in which the handler calls the stage that
\* has just resolved once more instead of going on to the next.
StageResolveAgain(k) ==
  /\ UNCHANGED nonWorkerVars
  /\ k \in 1..Len(inflight)
  /\ LET inv    == inflight[k]
         stages == HandlerStages(jobs[inv.job].type) IN
       /\ inv.pc < Len(stages)
       /\ Len(inv.val) <= Len(stages)
       /\ inflight' = [inflight EXCEPT ![k] =
                         [job |-> inv.job, pc |-> inv.pc,
                          val |-> StageCall(stages[inv.pc], inv.val)]]
  /\ UNCHANGED <<jobs, results, activeJobs, jobsStarted, jobsCompleted, jobsFailed,
                 activeGauge, log, now, ticks, maxConcurrentJobs>>

\* The stage awaited by the k-th suspended invocation resolves and the
\* handler goes on to await its next stage.
StageResolve(k) ==
  /\ UNCHANGED nonWorkerVars
  /\ k \in 1..Len(inflight)
  /\ LET inv    == inflight[k]
         stages == HandlerStages(jobs[inv.job].type) IN
       /\ inv.pc < Len(stages)
       /\ inflight' = [inflight EXCEPT ![k] =
                         [job |-> inv.job, pc |-> inv.pc + 1,
                          val |-> StageCall(stages[inv.pc], inv.val)]]
  /\ UNCHANGED <<jobs, results, activeJobs, jobsStarted, jobsCompleted, jobsFailed,
                 activeGauge, log, now, ticks, maxConcurrentJobs>>

\* The last stage of the k-th suspended invocation resolves: the handler
\* returns its result and tick resumes in its try block, then its finally.
HandlerResolve(k) ==
  /\ UNCHANGED nonWorkerVars
  /\ k \in 1..Len(inflight)
  /\ LET inv    == inflight[k]
         job    == jobs[inv.job]
         stages == HandlerStages(job.type)
         result == HandlerResult(StageCall(stages[inv.pc], inv.val)) IN
       /\ inv.pc = Len(stages)
       /\ jobs' = MarkCompletedJobs(jobs, inv.job, now)
       /\ results' = MarkCompletedResults(results, job.id, result)
       /\ jobsCompleted' = jobsCompleted + 1
       /\ log' = log \cup {LogRecord("info", "Job completed", job.id, job.type)}
  /\ activeJobs' = ReleaseSlot(activeJobs)
  /\ activeGauge' = ReleaseSlot(activeJobs)
  /\ inflight' = RemoveAt(inflight, k)
  /\ UNCHANGED <<jobsStarted, jobsFailed, now, ticks, maxConcurrentJobs>>

\* Variant of the catch block that does not count the failure.
HandlerRejectUncounted(k) ==
  /\ UNCHANGED nonWorkerVars
  /\ k \in 1..Len(inflight)
  /\ LET inv == inflight[k]
         job == jobs[inv.job] IN
       /\ jobs' = FailJob(jobs, inv.job)
       /\ log' = log \cup {LogRecord("error", "Job failed", job.id, job.type)}
  /\ activeJobs' = ReleaseSlot(activeJobs)
  /\ activeGauge' = ReleaseSlot(activeJobs)
  /\ inflight' = RemoveAt(inflight, k)
  /\ UNCHANGED <<results, jobsStarted, jobsCompleted, jobsFailed, now, ticks,
                 maxConcurrentJobs>>

\* The stage awaited by the k-th suspended invocation rejects: the handler
\* rejects and tick resumes in its catch block, then its finally.
HandlerReject(k) ==
  /\ UNCHANGED nonWorkerVars
  /\ k \in 1..Len(inflight)
  /\ LET inv == inflight[k]
         job == jobs[inv.job] IN
       /\ jobs' = FailJob(jobs, inv.job)
       /\ jobsFailed' = jobsFailed + 1
       /\ log' = log \cup {LogRecord("error", "Job failed", job.id, job.type)}
  /\ activeJobs' = ReleaseSlot(activeJobs)
  /\ activeGauge' = ReleaseSlot(activeJobs)
  /\ inflight' = RemoveAt(inflight, k)
  /\ UNCHANGED <<results, jobsStarted, jobsCompleted, now, ticks, maxConcurrentJobs>>

\* The steps of the worker process.
WorkerStep ==
  \/ \E type \in EnqueueTypes, payload \in Payloads, rnd \in RandVals :
       Enqueue(type, payload, rnd)
  \/ ClockAdvance
  \/ Tick
  \/ \E k \in 1..MaxJobs : StageResolve(k)
  \/ \E k \in 1..MaxJobs : HandlerResolve(k)
  \/ \E k \in 1..MaxJobs : HandlerReject(k)

Next == WorkerStep

Spec == Init /\ [][Next]_vars

(* Fairness: every awaited stage call of a started job eventually settles   *)
(* (resolves or rejects), and the continuation it resumes runs.             *)
SettleJob(i) ==
  \E k \in 1..MaxJobs :
    /\ k \in 1..Len(inflight)
    /\ inflight[k].job = i
    /\ (StageResolve(k) \/ HandlerResolve(k) \/ HandlerReject(k))

LiveSpec == Spec /\ \A i \in 1..MaxJobs : WF_vars(SettleJob(i))

(* ------------------------- derived observations ------------------------ *)

Started(js, i) == js[i].startedAt # Unset
Completed(js, i) == js[i].completedAt # Unset
Failed(js, i) == js[i].attempts > 0

NumStarted(js) == Cardinality({i \in 1..Len(js) : Started(js, i)})

\* The suspended invocations that run the job at index i.
InvocationsOf(i) == {k \in 1..Len(inflight) : inflight[k].job = i}

InFlight(i) == InvocationsOf(i) # {}

(* ================================ claims =============================== *)

(* C1: in every reachable state 0 <= activeJobs <= maxConcurrentJobs, and   *)
(* activeJobs counts the handler invocations in flight; a step taken while  *)
(* activeJobs = maxConcurrentJobs (a tick included) starts no job, even if  *)
(* unstarted jobs exist.                                                    *)
C1_Bound ==
  /\ 0 <= activeJobs
  /\ activeJobs <= maxConcurrentJobs
  /\ activeJobs = Len(inflight)

C1_NoDispatchAtCeiling ==
  activeJobs = maxConcurrentJobs =>
    /\ \A i \in 1..Len(jobs) : jobs'[i].startedAt = jobs[i].startedAt
    /\ jobsStarted' = jobsStarted
    /\ activeJobs' <= activeJobs
    /\ Len(inflight') <= Len(inflight)

C1_ConcurrencyCeiling == []C1_Bound /\ [][C1_NoDispatchAtCeiling]_vars

\* The ceiling is reached while an unstarted job with a handler waits and
\* ticks that dispatched nothing have fired.
C1_Witness ==
  /\ activeJobs = maxConcurrentJobs
  /\ QueueNext(jobs) # 0
  /\ jobs[QueueNext(jobs)].type \in JobType
  /\ ticks > jobsStarted

(* C2: no job has two handler invocations in flight at the same time, and   *)
(* a startedAt that is set is never cleared or overwritten by a later step. *)
C2_SingleInvocation ==
  \A i \in 1..Len(jobs) : Cardinality(InvocationsOf(i)) <= 1

C2_StartedAtStable ==
  \A i \in 1..Len(jobs) :
    Started(jobs, i) => jobs'[i].startedAt = jobs[i].startedAt

C2_SingleOwner == []C2_SingleInvocation /\ [][C2_StartedAtStable]_vars

\* A job is in flight, the clock has moved past its start, and further
\* ticks have fired since.
C2_Witness ==
  /\ Len(jobs) >= 1
  /\ InFlight(1)
  /\ now > jobs[1].startedAt
  /\ ticks > jobsStarted

(* C3: the started jobs form a prefix of the queue, and the job a step      *)
(* starts is the oldest unstarted one.                                      *)
C3_StartedPrefix ==
  \A i, j \in 1..Len(jobs) : (i < j /\ Started(jobs, j)) => Started(jobs, i)

C3_StartsOldest ==
  \A i \in 1..Len(jobs) :
    (~Started(jobs, i) /\ Started(jobs', i)) =>
      \A k \in 1..(i - 1) : Started(jobs, k)

C3_EnqueueOrder == []C3_StartedPrefix /\ [][C3_StartsOldest]_vars

\* Two jobs queued, the older one started, the younger one still waiting.
C3_Witness ==
  /\ Len(jobs) >= 2
  /\ Started(jobs, 1)
  /\ ~Started(jobs, 2)
  /\ jobs[2].type \in JobType

(* C4: a step in which a handler fails (the failed counter or some job's    *)
(* attempts changes) raises the attempts of exactly one job, which was in   *)
(* flight, by exactly 1, leaves its completedAt unset, stores no result,    *)
(* and changes no other field of any job.                                   *)
C4_FailureStep ==
  (jobsFailed' # jobsFailed \/ \E i \in 1..Len(jobs) : jobs'[i].attempts # jobs[i].attempts) =>
    \E i \in 1..Len(jobs) :
      /\ InFlight(i)
      /\ jobs' = [jobs EXCEPT ![i].attempts = jobs[i].attempts + 1]
      /\ jobs[i].completedAt = Unset
      /\ jobs'[i].completedAt = Unset
      /\ results' = results
      /\ jobsFailed' = jobsFailed + 1

C4_FailureIncrementsAttempts == [][C4_FailureStep]_vars

\* A handler has failed while another job of the queue exists.
C4_Witness ==
  /\ Len(jobs) >= 2
  /\ \E i \in 1..Len(jobs) : jobs[i].attempts = 1 /\ ~InFlight(i)
  /\ jobsFailed >= 1

(* C5: a job whose handler failed while attempts < maxAttempts is            *)
(* observably pending: its startedAt is unset, so next() offers it again;   *)
(* a failed job that next() will never offer again has attempts =           *)
(* maxAttempts.                                                             *)
C5_RetryableIsPending ==
  \A i \in 1..Len(jobs) :
    (Failed(jobs, i) /\ ~InFlight(i) /\ jobs[i].attempts < jobs[i].maxAttempts) =>
      ~Started(jobs, i)

(* C6: a tick whose next() job has no registered handler changes no job, no *)
(* result, no counter and consumes no slot; a job without a handler is, in  *)
(* every reachable state, unstarted, with attempts 0, not completed and not *)
(* in flight.                                                               *)
C6_NoHandlerJobUntouched ==
  \A i \in 1..Len(jobs) :
    jobs[i].type \notin JobType =>
      /\ jobs[i].startedAt = Unset
      /\ jobs[i].completedAt = Unset
      /\ jobs[i].attempts = 0
      /\ ~InFlight(i)

C6_NoHandlerTick ==
  ( /\ ticks' # ticks
    /\ activeJobs < maxConcurrentJobs
    /\ \E i \in 1..Len(jobs) :
         /\ jobs[i].startedAt = Unset
         /\ \A k \in 1..(i - 1) : jobs[k].startedAt # Unset
         /\ jobs[i].type \notin JobType )
  => UNCHANGED <<jobs, results, activeJobs, jobsStarted, jobsCompleted,
                 jobsFailed, activeGauge, inflight>>

C6_NoHandlerDropsTick == []C6_NoHandlerJobUntouched /\ [][C6_NoHandlerTick]_vars

\* A tick has met a job without a handler (the log holds its record) while
\* a slot was free, and later ticks have fired.
C6_Witness ==
  /\ \E i \in 1..Len(jobs) :
       /\ jobs[i].type \notin JobType
       /\ \E r \in log : r.msg = "No handler for job type" /\ r.jobId = jobs[i].id
  /\ ticks >= 2
  /\ activeJobs < maxConcurrentJobs

(* C7: a step in which a handler resolves (the completed counter or some    *)
(* job's completedAt changes) stamps completedAt on exactly one job, which  *)
(* was in flight, stores the handler's result under that job's id, raises   *)
(* the completed counter by exactly 1 and leaves attempts and the failed    *)
(* counter unchanged.                                                       *)
C7_SuccessStep ==
  (jobsCompleted' # jobsCompleted
     \/ \E i \in 1..Len(jobs) : jobs'[i].completedAt # jobs[i].completedAt) =>
    \E i \in 1..Len(jobs) :
      /\ InFlight(i)
      /\ jobs'[i].completedAt # Unset
      /\ jobs'[i].completedAt = now
      /\ jobs' = [jobs EXCEPT ![i].completedAt = jobs'[i].completedAt]
      /\ jobs[i].id \in DOMAIN results'
      /\ results'[jobs[i].id] =
           [success |-> TRUE, output |-> <<jobs[i].payload>> \o HandlerStages(jobs[i].type)]
      /\ \A id \in (DOMAIN results) \ {jobs[i].id} :
           id \in DOMAIN results' /\ results'[id] = results[id]
      /\ jobsCompleted' = jobsCompleted + 1
      /\ jobsFailed' = jobsFailed

C7_SuccessMarksCompleted == [][C7_SuccessStep]_vars

\* A two-stage handler has resolved and its result is stored.
C7_Witness ==
  \E i \in 1..Len(jobs) :
    /\ jobs[i].type = "analyzeRepo"
    /\ Completed(jobs, i)
    /\ jobs[i].id \in DOMAIN results
    /\ jobsCompleted >= 1

(* C8: one step (one tick) starts at most one job: the number of started    *)
(* jobs, activeJobs and the started counter each rise by at most 1, so the  *)
(* jobs started so far never outnumber the ticks fired so far.              *)
C8_OnePerStep ==
  /\ NumStarted(jobs') <= NumStarted(jobs) + 1
  /\ activeJobs' <= activeJobs + 1
  /\ jobsStarted' <= jobsStarted + 1
  /\ Len(inflight') <= Len(inflight) + 1

C8_TicksPerStart ==
  /\ jobsStarted <= ticks
  /\ NumStarted(jobs) <= ticks
  /\ Len(inflight) <= ticks

C8_OneDispatchPerTick == []C8_TicksPerStart /\ [][C8_OnePerStep]_vars

\* Two free slots and two waiting jobs with handlers, after one tick: only
\* one of them has been started.
C8_Witness ==
  /\ maxConcurrentJobs >= 2
  /\ Len(jobs) >= 2
  /\ jobs[1].type \in JobType
  /\ jobs[2].type \in JobType
  /\ ticks = 1
  /\ jobs[1].createdAt <= jobs[1].startedAt
  /\ Started(jobs, 1)
  /\ ~Started(jobs, 2)
  /\ activeJobs = 1

(* C9: a tick never waits for a job in flight: whenever a handler is        *)
(* suspended, a slot is free and the oldest unstarted job has a handler,    *)
(* the next timer firing dispatches that job; so several jobs are in        *)
(* flight at once and a younger job can complete before an older one.       *)
C9_TickNeverWaits ==
  ( /\ Len(inflight) >= 1
    /\ activeJobs < maxConcurrentJobs
    /\ ticks < MaxTicks
    /\ \E i \in 1..Len(jobs) :
         /\ jobs[i].startedAt = Unset
         /\ \A k \in 1..(i - 1) : jobs[k].startedAt # Unset
         /\ jobs[i].type \in JobType )
  => ENABLED (Tick /\ jobsStarted' = jobsStarted + 1 /\ Len(inflight') = Len(inflight) + 1)

\* The younger of two jobs has completed while the older one, started
\* before it, is still in flight.
C9_Witness ==
  /\ Len(jobs) >= 2
  /\ InFlight(1)
  /\ ~Completed(jobs, 1)
  /\ Completed(jobs, 2)
  /\ jobs[2].id \in DOMAIN results

(* C10: a started job is never cancelled: it holds its slot until its       *)
(* handler settles, it is never both completed and failed, the slots held   *)
(* are exactly the started jobs not yet settled, and, every awaited stage   *)
(* eventually settling, each started job is eventually completed or failed  *)
(* and out of flight.                                                       *)
Settled(js, i) == Completed(js, i) \/ Failed(js, i)

C10_ExactlyOneOutcome ==
  /\ \A i \in 1..Len(jobs) : ~(Completed(jobs, i) /\ Failed(jobs, i))
  /\ \A i \in 1..Len(jobs) : (Started(jobs, i) /\ ~Settled(jobs, i)) <=> InFlight(i)
  /\ activeJobs = Cardinality({i \in 1..Len(jobs) : Started(jobs, i) /\ ~Settled(jobs, i)})

C10_NoUnsettle ==
  \A i \in 1..Len(jobs) :
    /\ Completed(jobs, i) => jobs'[i].completedAt = jobs[i].completedAt
    /\ Failed(jobs, i) => jobs'[i].attempts = jobs[i].attempts

C10_EventuallySettled ==
  \A i \in 1..MaxJobs :
    (i <= Len(jobs) /\ Started(jobs, i))
      ~> (i <= Len(jobs) /\ Settled(jobs, i) /\ ~InFlight(i))

C10_RunsToSettlement ==
  /\ []C10_ExactlyOneOutcome
  /\ [][C10_NoUnsettle]_vars
  /\ C10_EventuallySettled

\* Both outcomes have happened and every slot is free again.
C10_Witness ==
  /\ Len(jobs) >= 2
  /\ \E i \in 1..Len(jobs) : Completed(jobs, i) /\ ~Failed(jobs, i)
  /\ \E i \in 1..Len(jobs) : Failed(jobs, i) /\ ~Completed(jobs, i)
  /\ activeJobs = 0
  /\ inflight = <<>>

(* ======================================================================= *)
(* The fork ledger: the SDK builds createFork / updateFork instructions     *)
(* (packages/sdk/src/accounts/configAccount.ts, instructions/updateFork.ts) *)
(* and submits them; the remote program executes each one atomically.      *)
(* ======================================================================= *)

MaxTxs == 2

\* JavaScript's undefined and null, and a value that is neither.
Undefined == <<"undefined">>
Null == <<"null">>
Some(x) == <<"some", x>>

\* Variant of ?? that behaves like ||: the falsy value of the field's type
\* also yields the default.
CoalesceFalsy(x, falsy, default) ==
  IF x = Undefined \/ x = Null \/ x = Some(falsy) THEN default ELSE x

\* The operator ??: the default replaces undefined and null only.
Coalesce(x, default) ==
  IF x = Undefined \/ x = Null THEN default ELSE x

ForkKeys == {"forkA", "forkB"}

\* Variant of the derivation that also seeds the address with the label.
ForkPdaLabelled(args) == <<"fork", args.forkKey, args.label>>

\* PublicKey.findProgramAddressSync([Buffer.from("fork"), forkKey.toBuffer()],
\* programId), for the arguments of a create or an update.
ForkPda(args) == <<"fork", args.forkKey>>

\* The CreateForkArgs callers pass in this model.
CreateForkArgs ==
  [forkKey     : ForkKeys,
   parent      : {Undefined, Some("forkA")},
   label       : {"alpha", "beta"},
   tags        : {"t1"},
   metadataUri : {Undefined}]

\* The UpdateForkArgs callers pass in this model: every subset of the four
\* optional fields, with an empty label and a false flag among the values.
UpdateForkArgs ==
  [forkKey     : ForkKeys,
   label       : {Undefined, Some("")},
   tags        : {Undefined, Some("t2")},
   metadataUri : {Undefined, Some("uri2")},
   isActive    : {Undefined, Some(FALSE)}]

\* configAccount.ts buildCreateForkInstruction
BuildCreateForkInstruction(args) ==
  [method |-> "createFork",
   fork   |-> ForkPda(args),
   args   |-> args,
   data   |-> [forkKey     |-> args.forkKey,
               parent      |-> Coalesce(args.parent, Null),
               label       |-> args.label,
               tags        |-> args.tags,
               metadataUri |-> Coalesce(args.metadataUri, Null)]]

\* Variant of the update builder written with || instead of ??.
BuildUpdateForkData_Falsy(args) ==
  [label       |-> CoalesceFalsy(args.label, "", Null),
   tags        |-> CoalesceFalsy(args.tags, "", Null),
   metadataUri |-> CoalesceFalsy(args.metadataUri, "", Null),
   isActive    |-> CoalesceFalsy(args.isActive, FALSE, Null)]

\* updateFork.ts buildUpdateForkInstruction: the argument struct.
BuildUpdateForkData(args) ==
  [label       |-> Coalesce(args.label, Null),
   tags        |-> Coalesce(args.tags, Null),
   metadataUri |-> Coalesce(args.metadataUri, Null),
   isActive    |-> Coalesce(args.isActive, Null)]

\* updateFork.ts buildUpdateForkInstruction
BuildUpdateForkInstruction(args) ==
  [method |-> "updateFork",
   fork   |-> ForkPda(args),
   args   |-> args,
   data   |-> BuildUpdateForkData(args)]

\* The record the program stores for a new fork.
NewForkRecord(accs, data) ==
  LET parentPda == <<"fork", data.parent[2]>> IN
  [forkKey     |-> data.forkKey,
   parent      |-> data.parent,
   label       |-> data.label,
   tags        |-> data.tags,
   metadataUri |-> data.metadataUri,
   isRoot      |-> (data.parent = Null),
   depth       |-> IF data.parent = Null THEN 0
                   ELSE IF parentPda \in DOMAIN accs THEN accs[parentPda].depth + 1
                   ELSE 1,
   isActive    |-> TRUE]

\* One field of a stored record after an update: null means no change.
MergeField(stored, update) == IF update = Null THEN stored ELSE update[2]

\* The stored record after the program applies an update.
UpdatedForkRecord(rec, data) ==
  [rec EXCEPT
     !.label       = MergeField(rec.label, data.label),
     !.tags        = MergeField(rec.tags, data.tags),
     !.metadataUri = IF data.metadataUri = Null THEN rec.metadataUri ELSE data.metadataUri,
     !.isActive    = MergeField(rec.isActive, data.isActive)]

\* The ledger with one more account.
WithAccount(accs, addr, rec) ==
  [a \in (DOMAIN accs) \cup {addr} |-> IF a = addr THEN rec ELSE accs[a]]

WorkerIdle ==
  /\ jobs = <<>> /\ results = <<>> /\ activeJobs = 0 /\ jobsStarted = 0
  /\ jobsCompleted = 0 /\ jobsFailed = 0 /\ activeGauge = 0 /\ inflight = <<>>
  /\ log = {} /\ now = 1 /\ ticks = 0 /\ maxConcurrentJobs = 1

\* What an instruction sent to the ledger leaves alone.
ledgerFrame == <<workerVars, callerVars, callVars, lifecycleVars, semverVars, apiVars>>

Outcome(tx, result) == [tx |-> tx, result |-> result]

\* A caller builds an instruction and sends it.
SubmitCreateFork(args) ==
  /\ UNCHANGED ledgerFrame
  /\ Len(txs) + Len(outcomes) < MaxTxs
  /\ txs' = Append(txs, BuildCreateForkInstruction(args))
  /\ UNCHANGED <<accounts, totalForks, outcomes>>

SubmitUpdateFork(args) ==
  /\ UNCHANGED ledgerFrame
  /\ Len(txs) + Len(outcomes) < MaxTxs
  /\ txs' = Append(txs, BuildUpdateForkInstruction(args))
  /\ UNCHANGED <<accounts, totalForks, outcomes>>

\* The program executes the k-th pending instruction, a createFork: the
\* fork account is created if absent, and the instruction fails otherwise.
ExecCreateFork(k) ==
  /\ UNCHANGED ledgerFrame
  /\ k \in 1..Len(txs)
  /\ txs[k].method = "createFork"
  /\ txs' = RemoveAt(txs, k)
  /\ IF txs[k].fork \in DOMAIN accounts
     THEN /\ outcomes' = Append(outcomes, Outcome(txs[k], "AlreadyExists"))
          /\ UNCHANGED <<accounts, totalForks>>
     ELSE /\ accounts' = WithAccount(accounts, txs[k].fork, NewForkRecord(accounts, txs[k].data))
          /\ totalForks' = totalForks + 1
          /\ outcomes' = Append(outcomes, Outcome(txs[k], "ok"))

\* The program executes the k-th pending instruction, an updateFork.
ExecUpdateFork(k) ==
  /\ UNCHANGED ledgerFrame
  /\ k \in 1..Len(txs)
  /\ txs[k].method = "updateFork"
  /\ txs' = RemoveAt(txs, k)
  /\ IF txs[k].fork \in DOMAIN accounts
     THEN /\ accounts' = WithAccount(accounts, txs[k].fork,
                                     UpdatedForkRecord(accounts[txs[k].fork], txs[k].data))
          /\ outcomes' = Append(outcomes, Outcome(txs[k], "ok"))
          /\ UNCHANGED totalForks
     ELSE /\ outcomes' = Append(outcomes, Outcome(txs[k], "NotFound"))
          /\ UNCHANGED <<accounts, totalForks>>

LedgerStep ==
  \/ \E args \in CreateForkArgs : SubmitCreateFork(args)
  \/ \E args \in UpdateForkArgs : SubmitUpdateFork(args)
  \/ \E k \in 1..MaxTxs : ExecCreateFork(k)
  \/ \E k \in 1..MaxTxs : ExecUpdateFork(k)

LedgerInit ==
  /\ LedgerIdle
  /\ WorkerIdle /\ CallerIdle /\ CallIdle /\ LifecycleIdle /\ SemverIdle
  /\ ApiIdle

LedgerNext == LedgerStep

LedgerSpec == LedgerInit /\ [][LedgerNext]_vars

\* The executed createFork instructions for a key, and those that succeeded.
CreateOutcomes(key) ==
  {i \in 1..Len(outcomes) :
     outcomes[i].tx.method = "createFork" /\ outcomes[i].tx.args.forkKey = key}

SucceededCreates(key) == {i \in CreateOutcomes(key) : outcomes[i].result = "ok"}

KeyHasRecord(key) == \E a \in DOMAIN accounts : accounts[a].forkKey = key

LastOutcome == outcomes'[Len(outcomes')]

C11_DuplicateStep ==
  (/\ Len(outcomes') = Len(outcomes) + 1
   /\ LastOutcome.tx.method = "createFork"
   /\ KeyHasRecord(LastOutcome.tx.args.forkKey))
  => (/\ LastOutcome.result = "AlreadyExists"
      /\ accounts' = accounts
      /\ totalForks' = totalForks)

C11_ExactlyOneSucceeds ==
  \A key \in ForkKeys :
    CreateOutcomes(key) # {} => Cardinality(SucceededCreates(key)) = 1

(* C11: a createFork for a key that already has a record fails with          *)
(* AlreadyExists and leaves every record and the fork count unchanged,       *)
(* whatever its arguments; of the creations executed for one key, in any     *)
(* order of execution, exactly one succeeds.                                 *)
C11_CreateOncePerKey == []C11_ExactlyOneSucceeds /\ [][C11_DuplicateStep]_vars

\* Two creations of one key with different arguments were both pending and
\* both executed: the first succeeded, the second was rejected.
C11_Witness ==
  /\ Len(outcomes) = 2
  /\ outcomes[1].tx.method = "createFork" /\ outcomes[2].tx.method = "createFork"
  /\ outcomes[1].tx.args.forkKey = outcomes[2].tx.args.forkKey
  /\ outcomes[1].tx.args # outcomes[2].tx.args
  /\ outcomes[1].result = "ok" /\ outcomes[2].result = "AlreadyExists"
  /\ accounts[outcomes[1].tx.fork].label = outcomes[1].tx.args.label

\* The fields an update can change.
UpdateFields == {"label", "tags", "metadataUri", "isActive"}

\* A stored field, as null or a value (metadataUri is stored nullable).
StoredValue(rec, f) == IF f = "metadataUri" THEN rec.metadataUri ELSE Some(rec[f])

C12_UpdateStep ==
  (/\ Len(outcomes') = Len(outcomes) + 1
   /\ LastOutcome.tx.method = "updateFork"
   /\ LastOutcome.result = "ok")
  => LET tx   == LastOutcome.tx
         a    == tx.fork
         args == tx.args
     IN /\ DOMAIN accounts' = DOMAIN accounts
        /\ \A b \in DOMAIN accounts \ {a} : accounts'[b] = accounts[b]
        /\ \A f \in UpdateFields :
             IF args[f] = Undefined
             THEN tx.data[f] = Null /\ accounts'[a][f] = accounts[a][f]
             ELSE tx.data[f] = args[f] /\ StoredValue(accounts'[a], f) = args[f]
        /\ \A f \in (DOMAIN accounts[a]) \ UpdateFields : accounts'[a][f] = accounts[a][f]
        /\ (\A f \in UpdateFields : args[f] = Undefined) => accounts' = accounts

(* C12: an update of a fork is partial and independent per field over        *)
(* label, tags, metadataUri and isActive: a field the caller omits is sent   *)
(* as null and keeps its stored value; a field the caller supplies, false    *)
(* and the empty string included, takes the new value; an update omitting    *)
(* all four leaves every stored field of every record as it was.             *)
C12_PartialUpdate == [][C12_UpdateStep]_vars

\* An update supplying an empty label and isActive = false and omitting tags
\* and metadataUri was applied to a created fork.
C12_Witness ==
  \E i \in 1..Len(outcomes) :
    /\ outcomes[i].tx.method = "updateFork" /\ outcomes[i].result = "ok"
    /\ outcomes[i].tx.args.label = Some("")
    /\ outcomes[i].tx.args.isActive = Some(FALSE)
    /\ outcomes[i].tx.args.tags = Undefined
    /\ outcomes[i].tx.args.metadataUri = Undefined
    /\ accounts[outcomes[i].tx.fork].label = ""
    /\ accounts[outcomes[i].tx.fork].isActive = FALSE
    /\ accounts[outcomes[i].tx.fork].tags = "t1"
    /\ accounts[outcomes[i].tx.fork].metadataUri = Null

(* ======================================================================= *)
(* The projection of raw fork accounts into ForkMetadata items              *)
(* (packages/sdk/src/queries/listForks.ts).                                 *)
(* ======================================================================= *)

\* What a pure call leaves alone.
callFrame == <<workerVars, callerVars, ledgerVars, lifecycleVars, semverVars, apiVars>>

\* A BN as the program's client decodes it, and a JavaScript number.
Bn(n) == <<"bn", n>>
Num(n) == <<"num", n>>

\* Number(x) of a BN or of a number, for values below 2^53.
ToNumber(x) == x[2]

\* String.prototype.trim on the pieces used here.
Trim(piece) ==
  CASE piece = " a" -> "a"
    [] piece = "b " -> "b"
    [] piece = " "  -> ""
    [] OTHER        -> piece

RECURSIVE TrimAndFilter(_)
\* pieces.map((s) => s.trim()).filter(Boolean), on the pieces split at commas
TrimAndFilter(pieces) ==
  IF pieces = <<>> THEN <<>>
  ELSE IF Trim(Head(pieces)) = "" THEN TrimAndFilter(Tail(pieces))
  ELSE <<Trim(Head(pieces))>> \o TrimAndFilter(Tail(pieces))

\* A tags field stored as one comma-separated string, given by its pieces,
\* or stored as an array.
TagString(pieces) == <<"string", pieces>>
TagArray(items) == <<"array", items>>

\* listForks.ts 19-22
ProjectTags(tags) ==
  IF tags = Undefined \/ tags = Null THEN <<>>
  ELSE IF tags[1] = "string" THEN TrimAndFilter(tags[2])
  ELSE tags[2]

\* The parent, depth and root flag of a stored fork: a root, a child of the
\* root, a grandchild.
StoredLineages ==
  {[parent |-> Null,          depth |-> Some(0), isRoot |-> Some(TRUE)],
   [parent |-> Some("forkA"), depth |-> Some(1), isRoot |-> Some(FALSE)],
   [parent |-> Some("forkB"), depth |-> Some(2), isRoot |-> Some(FALSE)]}

\* A stored lineage with any of its three fields absent from the raw record.
RawLineages ==
  {[parent |-> IF "parent" \in absent THEN Undefined ELSE l.parent,
    depth  |-> IF "depth"  \in absent THEN Undefined ELSE l.depth,
    isRoot |-> IF "isRoot" \in absent THEN Undefined ELSE l.isRoot] :
     l \in StoredLineages, absent \in SUBSET {"parent", "depth", "isRoot"}}

\* The raw accounts program.account.fork.all() returns in this model: stored
\* forks with any of the optional backing fields absent.
RawForkAccounts ==
  {[publicKey |-> <<"fork", "forkC">>,
    account   |-> [forkKey     |-> fk,
                   parent      |-> l.parent,
                   label       |-> "alpha",
                   forkType    |-> ft,
                   metadataUri |-> mu,
                   tags        |-> tg,
                   depth       |-> l.depth,
                   isRoot      |-> l.isRoot,
                   isActive    |-> ia,
                   createdAt   |-> ca,
                   updatedAt   |-> ua]] :
     fk \in {Undefined, Some("forkC")},
     l  \in RawLineages,
     ft \in {Undefined, Some("experimental")},
     mu \in {Null, Some("uri1")},
     tg \in {Undefined, TagString(<<" a", " ", "b ">>), TagArray(<<"a">>)},
     ia \in {Undefined, Some(FALSE)},
     ca \in {Undefined, Some(Bn(1))},
     ua \in {Undefined, Some(Bn(2))}}

\* listForks.ts 13-28: one item of the page.
ProjectFork(acc) ==
  [forkKey     |-> Coalesce(acc.account.forkKey, Some(acc.publicKey[2]))[2],
   parent      |-> Coalesce(acc.account.parent, Null),
   label       |-> acc.account.label,
   forkType    |-> Coalesce(acc.account.forkType, Some("unit09-instance"))[2],
   metadataUri |-> Coalesce(acc.account.metadataUri, Undefined),
   tags        |-> ProjectTags(acc.account.tags),
   depth       |-> Coalesce(acc.account.depth, Some(0))[2],
   isRoot      |-> Coalesce(acc.account.isRoot, Some(FALSE))[2],
   isActive    |-> Coalesce(acc.account.isActive, Some(TRUE))[2],
   createdAt   |-> ToNumber(Coalesce(acc.account.createdAt, Some(Num(0)))[2]),
   updatedAt   |-> ToNumber(Coalesce(acc.account.updatedAt,
                              Coalesce(acc.account.createdAt, Some(Num(0))))[2])]

\* listForks maps one raw account.
ListForksMap ==
  /\ callArgs \in RawForkAccounts
  /\ callResult = Nothing
  /\ callResult' = ProjectFork(callArgs)
  /\ UNCHANGED <<callArgs, callFrame>>

ProjectionInit ==
  /\ callArgs \in RawForkAccounts
  /\ callResult = Nothing
  /\ WorkerIdle /\ CallerIdle /\ LedgerIdle /\ LifecycleIdle /\ SemverIdle
  /\ ApiIdle

ProjectionNext == ListForksMap

ProjectionSpec == ProjectionInit /\ [][ProjectionNext]_vars

(* C13: every fork item projected by listForks, records with absent optional *)
(* fields included, has depth = 0 iff parent = null iff isRoot = true.       *)
C13_RootIffDepthZeroIffNoParent ==
  callResult # Nothing =>
    /\ (callResult.depth = 0) <=> (callResult.parent = Null)
    /\ (callResult.parent = Null) <=> (callResult.isRoot = TRUE)

(* ======================================================================= *)
(* The job queue under any caller of its API (jobQueue.ts): producers that  *)
(* enqueue, and a consumer that asks for work, stamps a job started and     *)
(* reports it completed.                                                    *)
(* ======================================================================= *)

\* Values of Math.random().toString(16).slice(2) seen by the queue's callers.
QueueRandVals == {"3fa9", "c27e"}

\* The result a consumer reports for the job it holds at index i.
QueueResult(i) == HandlerResult(<<i>>)

\* What a call of the queue API leaves alone.
queueFrame ==
  <<activeJobs, jobsStarted, jobsCompleted, jobsFailed, activeGauge, inflight,
    log, ticks, maxConcurrentJobs, ledgerVars, callVars, lifecycleVars, semverVars, apiVars>>

\* What the caller holds after a call: the operation, its arguments, the
\* value returned (a job is held by reference, its index in jobs).
Returned(op, args, value) ==
  [op |-> op, args |-> args, value |-> value, turn |-> ~ret.turn]

\* enqueue(type, payload)
CallEnqueue(type, payload, rnd) ==
  /\ Len(jobs) < MaxJobs
  /\ jobs' = Append(jobs, NewJob(type, payload, now, rnd))
  /\ calls' = Append(calls, [type |-> type, payload |-> payload, at |-> now])
  /\ ret' = Returned("enqueue", <<type, payload>>, Len(jobs) + 1)
  /\ UNCHANGED <<results, now, queueFrame>>

\* next()
CallNext ==
  /\ ret' = Returned("next", <<>>, QueueNext(jobs))
  /\ UNCHANGED <<jobs, results, calls, now, queueFrame>>

\* list()
CallList ==
  /\ ret' = Returned("list", <<>>, QueueList(jobs))
  /\ UNCHANGED <<jobs, results, calls, now, queueFrame>>

\* The consumer stamps a job it holds: job.startedAt = Date.now()
ConsumerStart(i) ==
  /\ i \in 1..Len(jobs)
  /\ jobs[i].startedAt = Unset
  /\ jobs' = StartJob(jobs, i, now)
  /\ ret' = Returned("start", <<i>>, 0)
  /\ UNCHANGED <<results, calls, now, queueFrame>>

\* markCompleted(job, result), by the consumer that started the job
CallMarkCompleted(i, result) ==
  /\ i \in 1..Len(jobs)
  /\ jobs[i].startedAt # Unset
  /\ jobs' = MarkCompletedJobs(jobs, i, now)
  /\ results' = MarkCompletedResults(results, jobs[i].id, result)
  /\ ret' = Returned("markCompleted", <<i, result>>, 0)
  /\ UNCHANGED <<calls, now, queueFrame>>

\* Time passes between two calls.
QueueClock ==
  /\ now < MaxClock
  /\ now' = now + 1
  /\ UNCHANGED <<jobs, results, calls, ret, queueFrame>>

QueueInit ==
  /\ WorkerIdle /\ CallerIdle /\ LedgerIdle /\ CallIdle /\ LifecycleIdle /\ SemverIdle
  /\ ApiIdle

QueueNextStep ==
  \/ \E rnd \in QueueRandVals : CallEnqueue("observeRepo", "repoA", rnd)
  \/ CallNext
  \/ CallList
  \/ \E i \in 1..MaxJobs : ConsumerStart(i)
  \/ \E i \in 1..MaxJobs : CallMarkCompleted(i, QueueResult(i))
  \/ QueueClock

QueueSpec == QueueInit /\ [][QueueNextStep]_vars

\* This step is a call of op that has returned.
IsCall(op) == ret'.turn # ret.turn /\ ret'.op = op

C14_NextStep ==
  IsCall("next") =>
    /\ jobs' = jobs /\ results' = results /\ calls' = calls
    /\ LET v == ret'.value IN
         \/ /\ v = 0
            /\ \A i \in 1..Len(jobs) : jobs[i].startedAt # Unset
         \/ /\ v \in 1..Len(jobs)
            /\ jobs[v].startedAt = Unset
            /\ \A k \in 1..(v - 1) : jobs[k].startedAt # Unset
            /\ \A k \in 1..Len(jobs) :
                 jobs[k].startedAt = Unset => jobs[v].createdAt <= jobs[k].createdAt
    /\ ret.op = "next" => ret'.value = ret.value

(* C14: next() returns the oldest job whose startedAt is unset, or none when *)
(* every job is started; it changes no job and no result; a call repeated    *)
(* with no enqueue or start in between returns the same job.                 *)
C14_NextIsPureAndOldest == [][C14_NextStep]_vars

\* next() returned the second job because the first one was started.
C14_Witness ==
  /\ ret.op = "next" /\ ret.value = 2
  /\ jobs[1].startedAt # Unset /\ jobs[2].startedAt = Unset

C15_ListStep ==
  IsCall("list") =>
    /\ jobs' = jobs
    /\ Len(ret'.value) = Len(calls)
    /\ \A i \in 1..Len(calls) :
         /\ ret'.value[i] = jobs[i]
         /\ ret'.value[i].type = calls[i].type
         /\ ret'.value[i].payload = calls[i].payload
         /\ ret'.value[i].createdAt = calls[i].at

C15_EnqueueStep ==
  IsCall("enqueue") =>
    /\ Len(jobs') = Len(jobs) + 1
    /\ \A i \in 1..Len(jobs) : jobs'[i] = jobs[i]
    /\ ret'.value = Len(jobs')
    /\ jobs'[Len(jobs')].attempts = 0
    /\ jobs'[Len(jobs')].startedAt = Unset
    /\ jobs'[Len(jobs')].completedAt = Unset

C15_OneEntryPerEnqueue == Len(jobs) = Len(calls)

(* C15: list() returns exactly one entry per enqueue call made so far, in    *)
(* the order of the calls; no entry is coalesced with another or removed;    *)
(* a job is created with attempts = 0 and startedAt, completedAt unset.      *)
C15_ListIsEnqueueHistory ==
  []C15_OneEntryPerEnqueue /\ [][C15_ListStep /\ C15_EnqueueStep]_vars

\* list() returned two entries for two enqueues of the same type and payload
\* that even share an id; the first has been started.
C15_Witness ==
  /\ ret.op = "list" /\ Len(ret.value) = 2
  /\ ret.value[1].id = ret.value[2].id
  /\ ret.value[1].startedAt # Unset /\ ret.value[2].startedAt = Unset

(* C16: job ids are unique for the lifetime of the process, also for jobs     *)
(* enqueued within the same millisecond: no two jobs carry the same id (so   *)
(* no result stored under an id is overwritten by another job's result).     *)
C16_JobIdsUnique ==
  \A i, j \in 1..Len(jobs) : i # j => jobs[i].id # jobs[j].id

C17_RepeatStep ==
  (/\ IsCall("markCompleted")
   /\ ret.op = "markCompleted"
   /\ ret'.args = ret.args)
  => (jobs' = jobs /\ results' = results)

(* C17: markCompleted called again for the same job with the same result     *)
(* leaves the job, its completedAt included, and the stored result exactly   *)
(* as the first call left them.                                              *)
C17_MarkCompletedIdempotent == [][C17_RepeatStep]_vars

(* ======================================================================= *)
(* Fork lineage (packages/shared-types/src/repo.ts buildForkLineage).       *)
(* ======================================================================= *)

MaxAncestors == 3

\* The forks a caller may pass as ancestors: a root, two forks at depth 1,
\* one at depth 2, one at depth 3 (forkKey and depth of their ForkMetadata).
AncestorPool ==
  {[forkKey |-> "root", depth |-> 0],
   [forkKey |-> "a1",   depth |-> 1],
   [forkKey |-> "a2",   depth |-> 1],
   [forkKey |-> "b",    depth |-> 2],
   [forkKey |-> "c",    depth |-> 3]}

\* The forks whose lineage is asked for: a descendant, and a root.
LineageForks ==
  {[forkKey |-> "leaf", depth |-> 4], [forkKey |-> "solo", depth |-> 0]}

\* Ancestor arrays, in any order, without repetition.
AncestorLists ==
  {a \in UNION {[1..n -> AncestorPool] : n \in 0..MaxAncestors} :
     \A i, j \in 1..Len(a) : i # j => a[i] # a[j]}

RECURSIVE InsertByDepthDescending(_, _)
\* Variant of the insertion that orders by descending depth.
InsertByDepthDescending(sorted, x) ==
  IF sorted = <<>> THEN <<x>>
  ELSE IF Head(sorted).depth - x.depth < 0 THEN <<x>> \o sorted
  ELSE <<Head(sorted)>> \o InsertByDepthDescending(Tail(sorted), x)

RECURSIVE InsertByDepth(_, _)
\* x put into a sorted array behind every element the comparator
\* (a, b) => a.depth - b.depth does not place after it (the sort is stable).
InsertByDepth(sorted, x) ==
  IF sorted = <<>> THEN <<x>>
  ELSE IF Head(sorted).depth - x.depth > 0 THEN <<x>> \o sorted
  ELSE <<Head(sorted)>> \o InsertByDepth(Tail(sorted), x)

RECURSIVE SortByDepth(_)
\* [...ancestors].sort((a, b) => a.depth - b.depth)
SortByDepth(ancestors) ==
  IF ancestors = <<>> THEN <<>>
  ELSE InsertByDepth(SortByDepth(SubSeq(ancestors, 1, Len(ancestors) - 1)),
                     ancestors[Len(ancestors)])

\* repo.ts buildForkLineage
BuildForkLineage(fork, ancestors) ==
  LET sorted   == SortByDepth(ancestors)
      pathKeys == [i \in 1..Len(sorted) |-> sorted[i].forkKey] \o <<fork.forkKey>>
      root     == IF sorted # <<>> THEN sorted[1].forkKey ELSE fork.forkKey
  IN [rootForkKey |-> root, path |-> pathKeys]

\* One call of buildForkLineage returns.
CallBuildForkLineage ==
  /\ callResult = Nothing
  /\ callResult' = BuildForkLineage(callArgs.fork, callArgs.ancestors)
  /\ UNCHANGED <<callArgs, callFrame>>

LineageInit ==
  /\ callArgs \in [fork : LineageForks, ancestors : AncestorLists]
  /\ callResult = Nothing
  /\ WorkerIdle /\ CallerIdle /\ LedgerIdle /\ LifecycleIdle /\ SemverIdle
  /\ ApiIdle

LineageNext == CallBuildForkLineage

LineageSpec == LineageInit /\ [][LineageNext]_vars

\* The depth of the ancestor that carries a key.
DepthOfKey(key) == (CHOOSE x \in AncestorPool : x.forkKey = key).depth

C18_Lineage ==
  callResult # Nothing =>
    LET fork      == callArgs.fork
        ancestors == callArgs.ancestors
        path      == callResult.path
        n         == Len(ancestors)
    IN /\ Len(path) = n + 1
       /\ path[n + 1] = fork.forkKey
       /\ {path[i] : i \in 1..n} = {ancestors[i].forkKey : i \in 1..n}
       /\ \A i \in 1..(n - 1) : DepthOfKey(path[i]) <= DepthOfKey(path[i + 1])
       /\ callResult.rootForkKey = path[1]
       /\ n = 0 => callResult.rootForkKey = fork.forkKey
       /\ \A i \in 1..n :
            ancestors[i].depth = 0 => callResult.rootForkKey = ancestors[i].forkKey

C18_InputKept == callArgs' = callArgs

(* C18: buildForkLineage(fork, ancestors) returns as path the ancestors' keys *)
(* in ascending order of depth followed by the fork's own key (|ancestors|+1 *)
(* entries, the last one fork.forkKey), and as rootForkKey the key of the    *)
(* depth-0 ancestor, or the fork's own key when ancestors is empty; the      *)
(* ancestors array passed in is not reordered.                               *)
C18_LineagePath == []C18_Lineage /\ [][C18_InputKept]_vars

\* A lineage was built from three ancestors passed out of order, the root not
\* first.
C18_Witness ==
  /\ callResult # Nothing
  /\ Len(callArgs.ancestors) = 3
  /\ callArgs.ancestors[1].depth > callArgs.ancestors[2].depth
  /\ callArgs.ancestors[3].depth = 0
  /\ callResult.rootForkKey = "root"
  /\ callResult.path[4] = "leaf"

(* ======================================================================= *)
(* Lifecycle summaries (packages/shared-types/src/metrics.ts                *)
(* applyLifecycleEvent).                                                    *)
(* ======================================================================= *)

MaxTimestamp == 2

Timestamps == 0..MaxTimestamp

LifecycleEventKind ==
  {"repo-created", "repo-updated", "module-registered", "module-updated",
   "fork-created", "fork-updated", "observation-started",
   "observation-completed", "metrics-updated", "error"}

\* The event fields applyLifecycleEvent reads.
LifecycleEvents == [kind : LifecycleEventKind, timestamp : Timestamps]

\* The summaries an entity may have when the events start to arrive.
InitialSummaries ==
  [createdAt         : {0},
   lastActivityAt    : Timestamps,
   lastObservationAt : {Undefined, Some(1)},
   lastErrorAt       : {Undefined},
   status            : {Undefined, Some("stable")}]

\* Math.max on two numbers
MathMax(a, b) == IF a >= b THEN a ELSE b

\* Variant of applyLifecycleEvent that takes the event's timestamp as it comes.
ApplyLifecycleEventLatest(s, event) ==
  [s EXCEPT !.lastActivityAt = event.timestamp,
            !.status = IF s.status = Undefined THEN Some("created") ELSE s.status]

\* Variant of applyLifecycleEvent in which an event other than an error
\* clears the error status.
ApplyLifecycleEventRecovering(s, event) ==
  LET n1 == [s EXCEPT !.lastActivityAt = MathMax(s.lastActivityAt, event.timestamp)]
      n2 == IF event.kind \in {"observation-started", "observation-completed"}
            THEN [n1 EXCEPT !.lastObservationAt =
                    Some(MathMax(Coalesce(n1.lastObservationAt, Some(0))[2],
                                 event.timestamp))]
            ELSE n1
      n3 == IF event.kind = "error"
            THEN [n2 EXCEPT !.lastErrorAt =
                              Some(MathMax(Coalesce(n2.lastErrorAt, Some(0))[2],
                                           event.timestamp)),
                            !.status = Some("error")]
            ELSE [n2 EXCEPT !.status = IF @ = Some("error") THEN Some("stable") ELSE @]
  IN IF n3.status = Undefined THEN [n3 EXCEPT !.status = Some("created")] ELSE n3

\* metrics.ts applyLifecycleEvent
ApplyLifecycleEvent(s, event) ==
  LET n1 == [s EXCEPT !.lastActivityAt = MathMax(s.lastActivityAt, event.timestamp)]
      n2 == IF event.kind \in {"observation-started", "observation-completed"}
            THEN [n1 EXCEPT !.lastObservationAt =
                    Some(MathMax(Coalesce(n1.lastObservationAt, Some(0))[2],
                                 event.timestamp))]
            ELSE n1
      n3 == IF event.kind = "error"
            THEN [n2 EXCEPT !.lastErrorAt =
                              Some(MathMax(Coalesce(n2.lastErrorAt, Some(0))[2],
                                           event.timestamp)),
                            !.status = Some("error")]
            ELSE n2
  IN IF n3.status = Undefined THEN [n3 EXCEPT !.status = Some("created")] ELSE n3

\* What an event applied to a summary leaves alone.
lifecycleFrame == <<workerVars, callerVars, ledgerVars, callVars, semverVars, apiVars>>

\* summary = applyLifecycleEvent(summary, event)
ApplyEvent(event) ==
  /\ summary' = ApplyLifecycleEvent(summary, event)
  /\ applied' = [applied EXCEPT !.timestamps = @ \cup {event.timestamp},
                                !.last = <<event>>]
  /\ UNCHANGED lifecycleFrame

LifecycleInit ==
  /\ summary \in InitialSummaries
  /\ applied = [initial |-> summary, timestamps |-> {}, last |-> <<>>]
  /\ WorkerIdle /\ CallerIdle /\ LedgerIdle /\ CallIdle /\ SemverIdle
  /\ ApiIdle

LifecycleNext == \E event \in LifecycleEvents : ApplyEvent(event)

LifecycleSpec == LifecycleInit /\ [][LifecycleNext]_vars

\* The greatest element of a non-empty set of numbers.
Greatest(S) == CHOOSE x \in S : \A y \in S : y <= x

C19_IsMaximum ==
  summary.lastActivityAt =
    Greatest({applied.initial.lastActivityAt} \cup applied.timestamps)

C19_NeverDecreases == summary'.lastActivityAt >= summary.lastActivityAt

(* C19: under any sequence of lifecycle events, fork-created events included, *)
(* in any order of their timestamps, lastActivityAt never decreases and       *)
(* equals the maximum of its initial value and the timestamps of all events   *)
(* applied so far.                                                            *)
C19_LastActivityIsMaximum == []C19_IsMaximum /\ [][C19_NeverDecreases]_vars

\* A fork-created event older than the last activity was applied after a
\* newer event had raised lastActivityAt above its initial value.
C19_Witness ==
  /\ applied.last # <<>>
  /\ applied.last[1].kind = "fork-created"
  /\ applied.last[1].timestamp < summary.lastActivityAt
  /\ summary.lastActivityAt > applied.initial.lastActivityAt

(* ======================================================================= *)
(* Semantic versions (packages/shared-types/src/metrics.ts).                *)
(* ======================================================================= *)

\* The components are JavaScript numbers (binary64): integers are exact up
\* to 2^53, and 2^53 + 1 rounds back to 2^53. SafeLimit stands for 2^53.
SafeLimit == 3

VersionComponents == 0..SafeLimit

\* SemanticVersionTuple = [number, number, number]
SemanticVersionTuples == [1..3 -> VersionComponents]

VersionParts == {"major", "minor", "patch"}

\* x + 1 on numbers
PlusOne(x) == IF x >= SafeLimit THEN x ELSE x + 1

RECURSIVE CompareFrom(_, _, _)
\* The loop of compareSemanticVersion from index i on.
CompareFrom(a, b, i) ==
  IF i > 3 THEN 0
  ELSE IF a[i] < b[i] THEN -1
  ELSE IF a[i] > b[i] THEN 1
  ELSE CompareFrom(a, b, i + 1)

\* Variant of the comparison that looks at the major component only.
CompareMajorOnly(a, b) == IF a[1] < b[1] THEN -1 ELSE IF a[1] > b[1] THEN 1 ELSE 0

\* metrics.ts compareSemanticVersion
CompareSemanticVersion(a, b) == CompareFrom(a, b, 1)

\* metrics.ts bumpSemanticVersion
BumpSemanticVersion(v, part) ==
  IF part = "major" THEN <<PlusOne(v[1]), 0, 0>>
  ELSE IF part = "minor" THEN <<v[1], PlusOne(v[2]), 0>>
  ELSE <<v[1], v[2], PlusOne(v[3])>>

\* What a bump leaves alone.
semverFrame ==
  <<workerVars, callerVars, ledgerVars, callVars, lifecycleVars, apiVars>>

\* version = bumpSemanticVersion(version, part)
Bump(part) ==
  /\ version' = BumpSemanticVersion(version, part)
  /\ bumps' = <<[from |-> version, part |-> part]>>
  /\ UNCHANGED semverFrame

SemverInit ==
  /\ version \in SemanticVersionTuples
  /\ bumps = <<>>
  /\ WorkerIdle /\ CallerIdle /\ LedgerIdle /\ CallIdle /\ LifecycleIdle
  /\ ApiIdle

SemverNext == \E part \in VersionParts : Bump(part)

SemverSpec == SemverInit /\ [][SemverNext]_vars

\* The index of a part in the tuple.
PartIndex(part) == IF part = "major" THEN 1 ELSE IF part = "minor" THEN 2 ELSE 3

(* C20: for every version v of non-negative integer components and every     *)
(* part, the bumped version compares greater than v                          *)
(* (compareSemanticVersion(v, bump(v, part)) < 0): the bumped part is v's    *)
(* plus exactly 1, every lower part is 0, every higher part is v's; so no    *)
(* bump lowers a version.                                                    *)
C20_BumpRaisesVersion ==
  bumps # <<>> =>
    LET v == bumps[1].from
        k == PartIndex(bumps[1].part)
    IN /\ CompareSemanticVersion(v, version) < 0
       /\ version[k] = v[k] + 1
       /\ \A i \in 1..3 : i > k => version[i] = 0
       /\ \A i \in 1..3 : i < k => version[i] = v[i]

(* --------------------- comparing semantic versions --------------------- *)

MaxComponent == 1

\* The versions compared: every tuple of small components, and the three of
\* the documented example.
ComparedVersions ==
  [1..3 -> 0..MaxComponent] \cup {<<1, 2, 3>>, <<1, 3, 0>>, <<2, 0, 0>>}

\* compareSemanticVersion is called on each pair of three versions.
CallCompare ==
  /\ callResult = Nothing
  /\ callResult' =
       [ab |-> CompareSemanticVersion(callArgs.a, callArgs.b),
        ba |-> CompareSemanticVersion(callArgs.b, callArgs.a),
        bc |-> CompareSemanticVersion(callArgs.b, callArgs.c),
        ac |-> CompareSemanticVersion(callArgs.a, callArgs.c)]
  /\ UNCHANGED <<callArgs, callFrame>>

CompareInit ==
  /\ callArgs \in [a : ComparedVersions, b : ComparedVersions, c : ComparedVersions]
  /\ callResult = Nothing
  /\ WorkerIdle /\ CallerIdle /\ LedgerIdle /\ LifecycleIdle /\ SemverIdle
  /\ ApiIdle

CompareNext == CallCompare

CompareSpec == CompareInit /\ [][CompareNext]_vars

\* a comes before b in the lexicographic order over (major, minor, patch).
LexLess(a, b) ==
  \/ a[1] < b[1]
  \/ a[1] = b[1] /\ a[2] < b[2]
  \/ a[1] = b[1] /\ a[2] = b[2] /\ a[3] < b[3]

(* C21: compareSemanticVersion(a, b) is -1, 0 or 1 exactly when a is less    *)
(* than, equal to or greater than b in the lexicographic order over (major,  *)
(* minor, patch); hence compare(a, b) = -compare(b, a), and a < b and b < c  *)
(* give a < c.                                                               *)
C21_CompareIsLexicographic ==
  callResult # Nothing =>
    LET a == callArgs.a
        b == callArgs.b
    IN /\ callResult.ab \in {-1, 0, 1}
       /\ (callResult.ab = -1) <=> LexLess(a, b)
       /\ (callResult.ab = 0) <=> (a = b)
       /\ (callResult.ab = 1) <=> LexLess(b, a)
       /\ callResult.ab = 0 - callResult.ba
       /\ (callResult.ab = -1 /\ callResult.bc = -1) => callResult.ac = -1

\* The documented chain (1,2,3) < (1,3,0) < (2,0,0) was compared.
C21_Witness ==
  /\ callResult # Nothing
  /\ callArgs.a = <<1, 2, 3>> /\ callArgs.b = <<1, 3, 0>> /\ callArgs.c = <<2, 0, 0>>
  /\ callResult.ab = -1 /\ callResult.bc = -1 /\ callResult.ac = -1

(* ======================================================================= *)
(* One job of each type taken through its handler by the worker loop        *)
(* (worker/src/queue/jobHandlers.ts, worker/src/index.ts).                  *)
(* ======================================================================= *)

\* A producer enqueues the only job of the run, of any type with a handler.
EnqueueOne(type) ==
  /\ jobs = <<>>
  /\ Enqueue(type, "repoA", "3fa9")

HandlerInit == Init

HandlerNext ==
  \/ \E type \in JobType : EnqueueOne(type)
  \/ ClockAdvance
  \/ Tick
  \/ \E k \in 1..MaxJobs : StageResolve(k)
  \/ \E k \in 1..MaxJobs : HandlerResolve(k)
  \/ \E k \in 1..MaxJobs : HandlerReject(k)

HandlerSpec == HandlerInit /\ [][HandlerNext]_vars

\* The stages a pipeline value has been through, in the order of the calls.
StagesOf(val) == SubSeq(val, 2, Len(val))

\* In a sequence of stage calls: no stage twice, and each stage of the
\* parse / build-graph / decompose chain comes right after the one it needs.
WellOrdered(st) ==
  /\ \A i, j \in 1..Len(st) : i # j => st[i] # st[j]
  /\ \A i \in 1..Len(st) :
       /\ st[i] = "buildCodeGraph" => (i > 1 /\ st[i - 1] = "parseProject")
       /\ st[i] = "decomposeModules" => (i > 1 /\ st[i - 1] = "buildCodeGraph")
       /\ st[i] \in {"generateModuleArtifacts", "validateModules"}
            => (i > 1 /\ st[i - 1] = "decomposeModules")
       /\ st[i] \in {"parseProject", "observeCode", "syncOnChain", "runFullPipeline"}
            => i = 1

C22_StagesInOrder ==
  /\ \A k \in 1..Len(inflight) :
       LET inv == inflight[k]
           job == jobs[inv.job]
       IN /\ inv.val[1] = job.payload
          /\ Len(StagesOf(inv.val)) = inv.pc - 1
          /\ WellOrdered(StagesOf(inv.val))
  /\ \A i \in 1..Len(jobs) :
       Completed(jobs, i) =>
         LET out == results[jobs[i].id].output IN
           /\ out[1] = jobs[i].payload
           /\ WellOrdered(StagesOf(out))
           /\ jobs[i].type = "decompose" =>
                StagesOf(out) = <<"parseProject", "buildCodeGraph", "decomposeModules">>
  /\ \A i \in 1..Len(jobs) :
       Failed(jobs, i) => (~InFlight(i) /\ ~Completed(jobs, i) /\ results = <<>>)

\* An invocation ends either in the worker's success path or in its
\* failure path, and the failure path takes the job out of the handler.
C22_FailureStep ==
  \A i \in 1..Len(jobs) :
    /\ (jobs'[i].attempts # jobs[i].attempts) =>
         /\ InFlight(i)
         /\ \A k \in 1..Len(inflight') : inflight'[k].job # i
         /\ jobs'[i].attempts = jobs[i].attempts + 1
         /\ jobsFailed' = jobsFailed + 1
         /\ results' = results
         /\ LogRecord("error", "Job failed", jobs[i].id, jobs[i].type) \in log'
    /\ (InFlight(i) /\ \A k \in 1..Len(inflight') : inflight'[k].job # i) =>
         \/ jobs'[i].attempts = jobs[i].attempts + 1
         \/ jobs'[i].completedAt # Unset /\ jobs[i].id \in DOMAIN results'

(* C22: a handler calls its external stages in a fixed order, each at most   *)
(* once per invocation, each stage receiving the output of the one before    *)
(* (decompose: parseProject, buildCodeGraph, decomposeModules); when a stage *)
(* fails the invocation ends there: no later stage is called, the stage is   *)
(* not called again, and the worker's failure path runs (attempts and        *)
(* jobsFailed incremented, error logged, no result stored).                  *)
C22_HandlerPipeline == []C22_StagesInOrder /\ [][C22_FailureStep]_vars

\* A validateModules job failed in its handler: the worker's failure path ran
\* and the invocation is gone.
C22_Witness ==
  /\ Len(jobs) = 1
  /\ jobs[1].type = "validateModules"
  /\ jobs[1].attempts = 1
  /\ jobsFailed = 1
  /\ inflight = <<>>
  /\ results = <<>>

(* ======================================================================= *)
(* Fetching accounts (packages/sdk/src/accounts/*.ts, queries/getConfig.ts, *)
(* queries/getRepoById.ts).                                                 *)
(* ======================================================================= *)

\* How a call ends.
Return(value) == <<"return", value>>
Throw(error) == <<"throw", error>>

\* Public keys callers hold, and the strings they pass for one: base58 of a
\* key, or something that is not a key.
PublicKeys == {"keyA", "keyB"}
KeyStrings == PublicKeys \cup {"not-a-key"}

\* The derivation that hashes the key alone, without the namespace tag.
FindProgramAddressOfKey(seeds) == <<seeds[Len(seeds)]>>

\* PublicKey.findProgramAddressSync(seeds, programId): an address per seed
\* list, different seed lists giving different addresses.
FindProgramAddress(seeds) == seeds

\* The addresses of the store that may hold a record.
StoreAddresses ==
  {FindProgramAddress(<<ns, key>>) : ns \in {"fork", "repo", "module"}, key \in PublicKeys}
    \cup {FindProgramAddress(<<"config">>)}

\* The data decoded from the account at an address.
AccountData(addr) == <<"data", addr>>

\* The stores a fetch may run against.
Stores == {[a \in S |-> AccountData(a)] : S \in SUBSET StoreAddresses}

\* program.account.<kind>.fetch(pda): rejects when the read fails and when
\* the account does not exist.
AccountFetch(store, pda, transportOk) ==
  IF ~transportOk THEN Throw("TransportError")
  ELSE IF pda \in DOMAIN store THEN Return(store[pda])
  ELSE Throw("AccountDoesNotExist")

\* Variant of the fetchers without the try / catch around the read.
FetchAccountNoCatch(store, pda, transportOk) ==
  LET r == AccountFetch(store, pda, transportOk) IN
    IF r[1] = "throw" THEN r
    ELSE Return(Some([pubkey |-> pda, data |-> r[2]]))

\* Variant of the fetchers whose catch lets a failed read through and
\* answers null only for a missing account.
FetchAccountRethrowing(store, pda, transportOk) ==
  LET r == AccountFetch(store, pda, transportOk) IN
    IF r = Throw("AccountDoesNotExist") THEN Return(Null)
    ELSE IF r[1] = "throw" THEN r
    ELSE Return(Some([pubkey |-> pda, data |-> r[2]]))

\* try { const data = await fetch(pda); return { pubkey: pda, data }; }
\* catch { return null; }
FetchAccount(store, pda, transportOk) ==
  LET r == AccountFetch(store, pda, transportOk) IN
    IF r[1] = "throw" THEN Return(Null)
    ELSE Return(Some([pubkey |-> pda, data |-> r[2]]))

FetchForkAccount(store, forkKey, transportOk) ==
  FetchAccount(store, FindProgramAddress(<<"fork", forkKey>>), transportOk)

FetchRepoAccount(store, repoKey, transportOk) ==
  FetchAccount(store, FindProgramAddress(<<"repo", repoKey>>), transportOk)

FetchModuleAccount(store, moduleKey, transportOk) ==
  FetchAccount(store, FindProgramAddress(<<"module", moduleKey>>), transportOk)

FetchConfigAccount(store, transportOk) ==
  FetchAccount(store, FindProgramAddress(<<"config">>), transportOk)

\* acc ? acc.data : null, on what an awaited fetcher gave
DataOrNull(r) ==
  IF r[1] = "throw" THEN r
  ELSE IF r[2] = Null THEN Return(Null)
  ELSE Return(Some(r[2][2].data))

\* getConfig.ts getConfig
GetConfig(store, transportOk) == DataOrNull(FetchConfigAccount(store, transportOk))

\* new PublicKey(repoKey) throws on a string that is not a key.
GetRepoById(store, repoKey, transportOk) ==
  IF repoKey \notin PublicKeys THEN Throw("InvalidPublicKey")
  ELSE DataOrNull(FetchRepoAccount(store, repoKey, transportOk))

\* The calls made in this model, and the address each one reads.
FetchCalls ==
  [fn : {"fetchForkAccount", "fetchRepoAccount", "fetchModuleAccount"},
   key : PublicKeys, transportOk : BOOLEAN]
    \cup [fn : {"fetchConfigAccount", "getConfig"}, key : {"-"}, transportOk : BOOLEAN]
    \cup [fn : {"getRepoById"}, key : KeyStrings, transportOk : BOOLEAN]

AddressRead(call) ==
  CASE call.fn = "fetchForkAccount"   -> FindProgramAddress(<<"fork", call.key>>)
    [] call.fn = "fetchRepoAccount"   -> FindProgramAddress(<<"repo", call.key>>)
    [] call.fn = "fetchModuleAccount" -> FindProgramAddress(<<"module", call.key>>)
    [] call.fn = "getRepoById"        -> FindProgramAddress(<<"repo", call.key>>)
    [] OTHER                          -> FindProgramAddress(<<"config">>)

RunFetch(store, call) ==
  CASE call.fn = "fetchForkAccount"   -> FetchForkAccount(store, call.key, call.transportOk)
    [] call.fn = "fetchRepoAccount"   -> FetchRepoAccount(store, call.key, call.transportOk)
    [] call.fn = "fetchModuleAccount" -> FetchModuleAccount(store, call.key, call.transportOk)
    [] call.fn = "fetchConfigAccount" -> FetchConfigAccount(store, call.transportOk)
    [] call.fn = "getConfig"          -> GetConfig(store, call.transportOk)
    [] call.fn = "getRepoById"        -> GetRepoById(store, call.key, call.transportOk)

\* What a read of the store leaves alone.
fetchFrame ==
  <<workerVars, callerVars, accounts, totalForks, txs, outcomes, lifecycleVars,
    semverVars, apiVars>>

\* One call is made and settles.
CallFetch(call) ==
  /\ callArgs' = call
  /\ callResult' = RunFetch(accounts, call)
  /\ UNCHANGED fetchFrame

FetchInit ==
  /\ accounts \in Stores
  /\ totalForks = 0 /\ txs = <<>> /\ outcomes = <<>>
  /\ WorkerIdle /\ CallerIdle /\ CallIdle /\ LifecycleIdle /\ SemverIdle
  /\ ApiIdle

FetchNext == \E call \in FetchCalls : CallFetch(call)

FetchSpec == FetchInit /\ [][FetchNext]_vars

\* The call that has settled reads an address that holds no record.
ReadsAbsent == AddressRead(callArgs) \notin DOMAIN accounts

\* The call that has settled was given a key, not an arbitrary string.
KeyWellFormed == callArgs.fn = "getRepoById" => callArgs.key \in PublicKeys

(* C23: fetching a fork, repo, module or config at an address that holds no  *)
(* record does not throw but returns null, and getConfig and getRepoById     *)
(* (given a key) return that null instead of raising an error; a record that *)
(* is there and can be read is returned.                                     *)
C23_MissingRecordIsNull ==
  callArgs # Nothing =>
    /\ callArgs.fn # "getRepoById" => callResult[1] = "return"
    /\ (KeyWellFormed /\ ReadsAbsent) => callResult = Return(Null)
    /\ (KeyWellFormed /\ ~ReadsAbsent /\ callArgs.transportOk) =>
         (callResult[1] = "return" /\ callResult[2] # Null)

\* getRepoById was called with the key of a repo that is not stored, over a
\* working connection, and returned null.
C23_Witness ==
  /\ callArgs # Nothing
  /\ callArgs.fn = "getRepoById" /\ callArgs.key = "keyA" /\ callArgs.transportOk
  /\ ReadsAbsent
  /\ FindProgramAddress(<<"repo", "keyB">>) \in DOMAIN accounts
  /\ callResult = Return(Null)

(* ======================================================================= *)
(* Repository tags (packages/shared-types/src/repo.ts): strings are         *)
(* sequences of characters, so that trimming, lower-casing and substring    *)
(* search are computed rather than assumed.                                 *)
(* ======================================================================= *)

\* The longest tag list normalised.
MaxTags == 3

\* String.prototype.toLowerCase on one character.
LowerChar(c) ==
  CASE c = "A" -> "a"
    [] c = "B" -> "b"
    [] OTHER   -> c

\* String.prototype.toLowerCase
ToLowerCase(str) == [i \in DOMAIN str |-> LowerChar(str[i])]

RECURSIVE TrimStart(_)
TrimStart(str) ==
  IF str # <<>> /\ Head(str) = " " THEN TrimStart(Tail(str)) ELSE str

RECURSIVE TrimEnd(_)
TrimEnd(str) ==
  IF str # <<>> /\ str[Len(str)] = " "
  THEN TrimEnd(SubSeq(str, 1, Len(str) - 1))
  ELSE str

\* String.prototype.trim
TrimString(str) == TrimEnd(TrimStart(str))

\* Array.prototype.map
MapSeq(seq, F(_)) == [i \in DOMAIN seq |-> F(seq[i])]

\* (tag) => tag.length > 0
NonEmptyString(str) == Len(str) > 0

\* repo.ts 68-74: tags is undefined or an array of strings.
NormalizeRepoTags(tags) ==
  IF tags = Undefined \/ tags[2] = <<>> THEN <<>>
  ELSE MapSeq(SelectSeq(MapSeq(tags[2], TrimString), NonEmptyString),
              ToLowerCase)

\* The tags the callers pass: empty, blank, padded, upper-case and plain.
TagPool ==
  {<<>>, <<" ">>, <<"a">>, <<"A">>, <<" ", "a">>, <<"a", " ">>, <<"b">>}

RECURSIVE SeqsUpTo(_, _)
\* The sequences over S of length at most n.
SeqsUpTo(S, n) ==
  IF n = 0 THEN {<<>>}
  ELSE LET shorter == SeqsUpTo(S, n - 1)
       IN  shorter \cup {Append(q, x) : q \in shorter, x \in S}

TagLists == {Some(tags) : tags \in SeqsUpTo(TagPool, MaxTags)} \cup {Undefined}

\* One call of normalizeRepoTags, and of normalizeRepoTags on its result.
CallNormalizeRepoTags ==
  /\ callResult = Nothing
  /\ LET once == NormalizeRepoTags(callArgs)
     IN  callResult' = [once |-> once, twice |-> NormalizeRepoTags(Some(once))]
  /\ UNCHANGED <<callArgs, callFrame>>

TagInit ==
  /\ callArgs \in TagLists
  /\ callResult = Nothing
  /\ WorkerIdle /\ CallerIdle /\ LedgerIdle /\ LifecycleIdle /\ SemverIdle
  /\ ApiIdle

TagNext == CallNormalizeRepoTags

TagSpec == TagInit /\ [][TagNext]_vars

NoRepeat(seq) == \A i, j \in DOMAIN seq : seq[i] = seq[j] => i = j

(* C26: normalizeRepoTags returns tags that are trimmed, lower-case and     *)
(* non-empty, with no tag occurring twice, and normalising a normalised     *)
(* list returns it unchanged.                                               *)
C26_TagsNormalized ==
  callResult # Nothing =>
    /\ \A i \in DOMAIN callResult.once :
         /\ TrimString(callResult.once[i]) = callResult.once[i]
         /\ ToLowerCase(callResult.once[i]) = callResult.once[i]
         /\ callResult.once[i] # <<>>
    /\ NoRepeat(callResult.once)
    /\ callResult.twice = callResult.once

(* ======================================================================= *)
(* The list queries of the SDK (packages/sdk/src/queries/listRepos.ts,      *)
(* listForks.ts, listModulesByRepo.ts): every account of a namespace is     *)
(* read, projected, filtered in memory and cut to the first limit items.    *)
(* ======================================================================= *)

\* The most accounts stored over the three namespaces.
MaxStored == 2

\* The largest limit a caller passes.
MaxLimit == 2

\* filter.limit ?? 100
DefaultLimit == 100

\* String.prototype.includes
Includes(str, sub) ==
  \E i \in 0..(Len(str) - Len(sub)) : SubSeq(str, i + 1, i + Len(sub)) = sub

\* Array.prototype.slice(0, end) for end >= 0
Slice(seq, end) == SubSeq(seq, 1, IF end < Len(seq) THEN end ELSE Len(seq))

\* listRepos.ts 51-55 as it would be if a supplied cursor moved the start of
\* the page.
PageFromCursor(filtered, filter) ==
  Return([items      |-> Slice(IF filter.cursor = Undefined \/ filtered = <<>>
                               THEN filtered ELSE Tail(filtered),
                               Coalesce(filter.limit, Some(DefaultLimit))[2]),
          nextCursor |-> Null])

\* listRepos.ts 51-55, listForks.ts 37-41, listModulesByRepo.ts 55-59
Page(filtered, filter) ==
  Return([items      |-> Slice(filtered,
                               Coalesce(filter.limit, Some(DefaultLimit))[2]),
          nextCursor |-> Null])

\* The limits and cursors a caller passes.
Limits == {Undefined} \cup {Some(n) : n \in 0..MaxLimit}
Cursors == {Undefined, Some("cursor1")}

\* Raw repo accounts as program.account.repo.all() returns them: one with
\* the optional fields absent and its tags stored as one string, one with
\* every field stored.
RawRepoAccounts ==
  {[publicKey |-> <<"repo", "keyA">>,
    account   |-> [repoKey          |-> Undefined,
                   name             |-> <<"A", "b">>,
                   url              |-> <<"x">>,
                   description      |-> Undefined,
                   tags             |-> TagString(<<<<" ", "a">>, <<" ">>, <<"B">>>>),
                   visibility       |-> Undefined,
                   sourceType       |-> Undefined,
                   defaultBranch    |-> Undefined,
                   allowObservation |-> TRUE,
                   isActive         |-> TRUE,
                   stats            |-> Undefined,
                   createdAt        |-> Some(Bn(1)),
                   updatedAt        |-> Undefined]],
   [publicKey |-> <<"repo", "keyB">>,
    account   |-> [repoKey          |-> Some("keyB"),
                   name             |-> <<"c">>,
                   url              |-> <<"x", "B">>,
                   description      |-> Some("text"),
                   tags             |-> TagArray(<<<<"A">>>>),
                   visibility       |-> Some("private"),
                   sourceType       |-> Some("git-local"),
                   defaultBranch    |-> Some("main"),
                   allowObservation |-> FALSE,
                   isActive         |-> FALSE,
                   stats            |-> Undefined,
                   createdAt        |-> Some(Bn(1)),
                   updatedAt        |-> Some(Bn(2))]]}

\* listRepos.ts 18-22: the argument of normalizeRepoTags
RepoTagsArgument(tags) ==
  IF tags = Undefined \/ tags = Null THEN Some(<<>>) ELSE Some(tags[2])

\* listRepos.ts 13-31
ProjectRepo(acc) ==
  [repoKey          |-> Coalesce(acc.account.repoKey, Some(acc.publicKey[2]))[2],
   name             |-> acc.account.name,
   url              |-> acc.account.url,
   description      |-> Coalesce(acc.account.description, Undefined),
   tags             |-> NormalizeRepoTags(RepoTagsArgument(acc.account.tags)),
   visibility       |-> Coalesce(acc.account.visibility, Some("public"))[2],
   sourceType       |-> Coalesce(acc.account.sourceType, Some("github"))[2],
   defaultBranch    |-> Coalesce(acc.account.defaultBranch, Undefined),
   allowObservation |-> acc.account.allowObservation,
   isActive         |-> acc.account.isActive,
   stats            |-> Coalesce(acc.account.stats, Undefined),
   createdAt        |-> ToNumber(Coalesce(acc.account.createdAt, Some(Num(0)))[2]),
   updatedAt        |-> ToNumber(Coalesce(acc.account.updatedAt,
                                   Coalesce(acc.account.createdAt, Some(Num(0))))[2])]

\* The filters passed to listRepos.
RepoFilters ==
  [search     : {Undefined, Some(<<"a">>), Some(<<"B">>)},
   tags       : {Undefined, Some(<<<<"A">>>>), Some(<<<<"a">>, <<"b">>>>)},
   visibility : {Undefined, Some("private")},
   sourceType : {Undefined, Some("github")},
   activeOnly : {Undefined, Some(TRUE)},
   limit      : Limits,
   cursor     : Cursors]

\* if (x) for an optional x whose falsy value is given
IsSet(x, falsy) == x # Undefined /\ x # Null /\ x[2] # falsy

\* listRepos.ts 43-47: every requested tag, lower-cased, is a tag of the item
HasAllTags(item, tags) ==
  \A i \in DOMAIN tags : \E j \in DOMAIN item.tags :
     item.tags[j] = ToLowerCase(tags[i])

\* listRepos.ts 33-49: the predicate of items.filter
RepoPasses(item, filter) ==
  /\ ~(IsSet(filter.activeOnly, FALSE) /\ ~item.isActive)
  /\ ~(IsSet(filter.visibility, "") /\ item.visibility # filter.visibility[2])
  /\ ~(IsSet(filter.sourceType, "") /\ item.sourceType # filter.sourceType[2])
  /\ IsSet(filter.search, <<>>) =>
       \/ Includes(ToLowerCase(item.name), ToLowerCase(filter.search[2]))
       \/ Includes(ToLowerCase(item.url), ToLowerCase(filter.search[2]))
  /\ (filter.tags # Undefined /\ Len(filter.tags[2]) > 0) =>
       HasAllTags(item, filter.tags[2])

\* listRepos.ts 10-56
ListRepos(store, filter) ==
  LET items    == MapSeq(store.repo, ProjectRepo)
      Keep(it) == RepoPasses(it, filter)
  IN  Page(SelectSeq(items, Keep), filter)

\* Raw fork accounts: a root with the optional fields absent, and a child.
ListedForkAccounts ==
  {[publicKey |-> <<"fork", "forkA">>,
    account   |-> [forkKey     |-> Undefined,
                   parent      |-> Undefined,
                   label       |-> "alpha",
                   forkType    |-> Undefined,
                   metadataUri |-> Null,
                   tags        |-> Undefined,
                   depth       |-> Some(0),
                   isRoot      |-> Some(TRUE),
                   isActive    |-> Undefined,
                   createdAt   |-> Some(Bn(1)),
                   updatedAt   |-> Undefined]],
   [publicKey |-> <<"fork", "forkB">>,
    account   |-> [forkKey     |-> Some("forkB"),
                   parent      |-> Some("forkA"),
                   label       |-> "beta",
                   forkType    |-> Some("experiment"),
                   metadataUri |-> Some("uri1"),
                   tags        |-> TagArray(<<"a">>),
                   depth       |-> Some(1),
                   isRoot      |-> Some(FALSE),
                   isActive    |-> Some(FALSE),
                   createdAt   |-> Some(Bn(1)),
                   updatedAt   |-> Some(Bn(2))]]}

\* The filters passed to listForks.
ForkFilters ==
  [forkType   : {Undefined, Some("experiment"), Some("unit09-instance")},
   parent     : {Undefined, Null, Some("forkA")},
   activeOnly : {Undefined, Some(TRUE)},
   limit      : Limits,
   cursor     : Cursors]

\* listForks.ts 30-35: the predicate of items.filter
ForkPasses(item, filter) ==
  /\ ~(IsSet(filter.forkType, "") /\ item.forkType # filter.forkType[2])
  /\ ~(filter.parent # Undefined /\ item.parent # filter.parent)
  /\ ~(IsSet(filter.activeOnly, FALSE) /\ ~item.isActive)

\* listForks.ts 7-42
ListForks(store, filter) ==
  LET items    == MapSeq(store.fork, ProjectFork)
      Keep(it) == ForkPasses(it, filter)
  IN  Page(SelectSeq(items, Keep), filter)

\* Raw module accounts of one repository: one with the optional fields
\* absent and inactive, one with every field stored.
RawModuleAccounts ==
  {[publicKey |-> <<"module", "modA">>,
    account   |-> [moduleKey          |-> Undefined,
                   repoKey            |-> Some("keyA"),
                   name               |-> <<"A", "b">>,
                   kind               |-> Undefined,
                   description        |-> Undefined,
                   metadataUri        |-> Undefined,
                   tags               |-> Undefined,
                   isActive           |-> FALSE,
                   currentVersion     |-> Undefined,
                   recommendedVersion |-> Undefined,
                   createdAt          |-> Some(Bn(1)),
                   updatedAt          |-> Undefined]],
   [publicKey |-> <<"module", "modB">>,
    account   |-> [moduleKey          |-> Some("modB"),
                   repoKey            |-> Some("keyA"),
                   name               |-> <<"c">>,
                   kind               |-> Some("cli-tool"),
                   description        |-> Some("text"),
                   metadataUri        |-> Some("uri1"),
                   tags               |-> TagString(<<" a", " ", "b ">>),
                   isActive           |-> TRUE,
                   currentVersion     |-> Some(<<1, 2, 3>>),
                   recommendedVersion |-> Some(<<1, 3, 0>>),
                   createdAt          |-> Some(Bn(1)),
                   updatedAt          |-> Some(Bn(2))]]}

\* metrics.ts 214-228 on the parts of rawVersion.join("."), which are
\* integers: three parts or null.
ParseSemanticVersion(parts) == IF Len(parts) # 3 THEN Null ELSE Some(parts)

\* listModulesByRepo.ts 30-53
ProjectModule(acc, filter) ==
  [moduleKey          |-> Coalesce(acc.account.moduleKey, Some(acc.publicKey[2]))[2],
   repoKey            |-> Coalesce(acc.account.repoKey, filter.repoKey)[2],
   name               |-> acc.account.name,
   kind               |-> Coalesce(acc.account.kind, Some("anchor-program"))[2],
   description        |-> Coalesce(acc.account.description, Undefined),
   metadataUri        |-> Coalesce(acc.account.metadataUri, Undefined),
   tags               |-> ProjectTags(acc.account.tags),
   isActive           |-> acc.account.isActive,
   currentVersion     |->
     Coalesce(ParseSemanticVersion(
                Coalesce(acc.account.currentVersion, Some(<<0, 1, 0>>))[2]),
              Some(<<0, 1, 0>>))[2],
   recommendedVersion |-> Coalesce(acc.account.recommendedVersion, Undefined),
   createdAt          |-> ToNumber(Coalesce(acc.account.createdAt, Some(Num(0)))[2]),
   updatedAt          |-> ToNumber(Coalesce(acc.account.updatedAt,
                                     Coalesce(acc.account.createdAt, Some(Num(0))))[2])]

\* The filters passed to listModulesByRepo.
ModuleFilters ==
  [repoKey    : {Undefined, Some("keyA"), Some("keyB"), Some("not-a-key")},
   search     : {Undefined, Some(<<"c">>)},
   tags       : {Undefined},
   kind       : {Undefined, Some("cli-tool")},
   activeOnly : {Undefined, Some(TRUE)},
   limit      : Limits,
   cursor     : Cursors]

\* listModulesByRepo.ts 20-28: the accounts whose repo key field is the key
\* asked for
MemcmpRepoKey(modules, repoKey) ==
  LET Match(acc) == acc.account.repoKey = Some(repoKey)
  IN  SelectSeq(modules, Match)

\* listModulesByRepo.ts 12-60
ListModulesByRepo(store, filter) ==
  IF ~IsSet(filter.repoKey, "")
  THEN Throw("repoKey is required for listModulesByRepo")
  ELSE IF filter.repoKey[2] \notin PublicKeys THEN Throw("InvalidPublicKey")
  ELSE LET Project(acc) == ProjectModule(acc, filter)
       IN  Page(MapSeq(MemcmpRepoKey(store.module, filter.repoKey[2]), Project),
                filter)

\* What a query leaves alone: every account stays as stored.
listFrame ==
  <<workerVars, callerVars, accounts, totalForks, txs, outcomes,
    lifecycleVars, semverVars, apiVars>>

CallListRepos(filter) ==
  /\ callArgs = Nothing
  /\ callArgs' = [fn |-> "listRepos", filter |-> filter]
  /\ callResult' = ListRepos(accounts, filter)
  /\ UNCHANGED listFrame

CallListForks(filter) ==
  /\ callArgs = Nothing
  /\ callArgs' = [fn |-> "listForks", filter |-> filter]
  /\ callResult' = ListForks(accounts, filter)
  /\ UNCHANGED listFrame

CallListModulesByRepo(filter) ==
  /\ callArgs = Nothing
  /\ callArgs' = [fn |-> "listModulesByRepo", filter |-> filter]
  /\ callResult' = ListModulesByRepo(accounts, filter)
  /\ UNCHANGED listFrame

\* The stores read: the accounts of the three namespaces in the order the
\* program returns them.
ListedStores ==
  {st \in [repo   : SeqsUpTo(RawRepoAccounts, MaxStored),
           fork   : SeqsUpTo(ListedForkAccounts, MaxStored),
           module : SeqsUpTo(RawModuleAccounts, MaxStored)] :
     Len(st.repo) + Len(st.fork) + Len(st.module) <= MaxStored}

ListInit ==
  /\ accounts \in ListedStores
  /\ totalForks = 0 /\ txs = <<>> /\ outcomes = <<>>
  /\ callArgs = Nothing /\ callResult = Nothing
  /\ WorkerIdle /\ CallerIdle /\ LifecycleIdle /\ SemverIdle
  /\ ApiIdle

ListNext ==
  \/ \E filter \in RepoFilters : CallListRepos(filter)
  \/ \E filter \in ForkFilters : CallListForks(filter)
  \/ \E filter \in ModuleFilters : CallListModulesByRepo(filter)

ListSpec == ListInit /\ [][ListNext]_vars

\* The call made returned a page.
PageReturned == callResult # Nothing /\ callResult[1] = "return"

\* The criteria a repository filter sets, as the query contract states them.
RepoMatches(item, f) ==
  /\ f.activeOnly = Some(TRUE) => item.isActive
  /\ f.visibility # Undefined => item.visibility = f.visibility[2]
  /\ f.sourceType # Undefined => item.sourceType = f.sourceType[2]
  /\ f.search # Undefined =>
       \E field \in {item.name, item.url} :
          Includes(ToLowerCase(field), ToLowerCase(f.search[2]))
  /\ f.tags # Undefined =>
       \A i \in DOMAIN f.tags[2] :
          \E j \in DOMAIN item.tags : item.tags[j] = ToLowerCase(f.tags[2][i])

\* The criteria a fork filter sets.
ForkMatches(item, f) ==
  /\ f.forkType # Undefined => item.forkType = f.forkType[2]
  /\ f.parent # Undefined => item.parent = f.parent
  /\ f.activeOnly = Some(TRUE) => item.isActive

\* The criteria a module filter sets.
ModuleMatches(item, f) ==
  /\ item.repoKey = f.repoKey[2]
  /\ f.search # Undefined =>
       Includes(ToLowerCase(item.name), ToLowerCase(f.search[2]))
  /\ f.tags # Undefined =>
       \A i \in DOMAIN f.tags[2] :
          \E j \in DOMAIN item.tags : item.tags[j] = f.tags[2][i]
  /\ f.kind # Undefined => item.kind = f.kind[2]
  /\ f.activeOnly = Some(TRUE) => item.isActive

\* The item of the call made matches the filter of the call made.
Matches(item) ==
  CASE callArgs.fn = "listRepos"         -> RepoMatches(item, callArgs.filter)
    [] callArgs.fn = "listForks"         -> ForkMatches(item, callArgs.filter)
    [] callArgs.fn = "listModulesByRepo" -> ModuleMatches(item, callArgs.filter)

\* Every stored record of the namespace the call made reads, projected.
ProjectedStore ==
  CASE callArgs.fn = "listRepos"         -> MapSeq(accounts.repo, ProjectRepo)
    [] callArgs.fn = "listForks"         -> MapSeq(accounts.fork, ProjectFork)
    [] callArgs.fn = "listModulesByRepo" ->
         LET Project(acc) == ProjectModule(acc, callArgs.filter)
         IN  MapSeq(accounts.module, Project)

\* The filtered set of the call made: the stored records matching its filter,
\* in store order.
FilteredSet == SelectSeq(ProjectedStore, Matches)

(* C24: every item a list query returns satisfies every criterion set in    *)
(* its filter, and with no limit set the page holds every stored record     *)
(* that satisfies them all, for listRepos, listForks and listModulesByRepo. *)
C24_WholeFilterApplied ==
  PageReturned =>
    /\ \A i \in DOMAIN callResult[2].items : Matches(callResult[2].items[i])
    /\ callArgs.filter.limit = Undefined => callResult[2].items = FilteredSet

\* The query the call made, run on another filter.
RunList(filter) ==
  CASE callArgs.fn = "listRepos"         -> ListRepos(accounts, filter)
    [] callArgs.fn = "listForks"         -> ListForks(accounts, filter)
    [] callArgs.fn = "listModulesByRepo" -> ListModulesByRepo(accounts, filter)

\* The set a page is cut from: the filtered set of listRepos and listForks,
\* and for listModulesByRepo the modules of the repository asked for.
PaginatedSet ==
  IF callArgs.fn = "listModulesByRepo"
  THEN LET OfRepo(item) == item.repoKey = callArgs.filter.repoKey[2]
       IN  SelectSeq(ProjectedStore, OfRepo)
  ELSE FilteredSet

\* The limit in force: the one passed, or the default.
LimitInForce ==
  IF callArgs.filter.limit = Undefined THEN DefaultLimit
  ELSE callArgs.filter.limit[2]

RawForkOf(item) ==
  CHOOSE acc \in ListedForkAccounts : acc.publicKey[2] = item.forkKey

RawModuleOf(item) ==
  CHOOSE acc \in RawModuleAccounts : acc.publicKey[2] = item.moduleKey

\* An optional raw field projected: the default if absent, its value if not.
DefaultedTo(raw, projected, default) ==
  IF raw = Undefined THEN projected = default ELSE projected = raw[2]

(* C27: a module with no stored kind is projected with kind "other", a fork *)
(* with no stored forkType with the generic fork kind, and a stored kind,   *)
(* forkType, active flag or version is projected as stored.                 *)
C27_AbsentFieldsDefaulted ==
  PageReturned =>
    \A i \in DOMAIN callResult[2].items :
      LET item == callResult[2].items[i]
      IN  /\ callArgs.fn = "listForks" =>
               /\ DefaultedTo(RawForkOf(item).account.forkType, item.forkType,
                              "unit09-instance")
               /\ DefaultedTo(RawForkOf(item).account.isActive, item.isActive,
                              TRUE)
          /\ callArgs.fn = "listModulesByRepo" =>
               /\ DefaultedTo(RawModuleOf(item).account.kind, item.kind, "other")
               /\ DefaultedTo(RawModuleOf(item).account.currentVersion,
                              item.currentVersion, <<0, 1, 0>>)

(* ======================================================================= *)
(* The pipeline service of the API (services/api/src/services/             *)
(* pipelineService.ts) over its in-memory queue client                      *)
(* (services/api/src/clients/queueClient.ts).                               *)
(* ======================================================================= *)

\* The pipeline sources posted, and the values of Math.random() drawn.
PipelineSources == {"repoA", "repoB"}
ApiRandVals == {"3fa9", "c27e"}

\* queueClient.ts 29
ApiJobId(t, rnd) == <<"job", t, rnd>>

\* queueClient.ts 30-35
NewQueueJob(id, t, payload) ==
  [id        |-> id,
   createdAt |-> t,
   status    |-> "pending",
   payload   |-> payload,
   result    |-> Undefined,
   error     |-> Undefined]

\* queueClient.ts 36: jobs[id] = job
PutJob(js, id, job) ==
  [x \in (DOMAIN js) \cup {id} |-> IF x = id THEN job ELSE js[x]]

\* Variant of completeJob that leaves the job in the running status.
CompleteJobRunning(js, id, result) ==
  IF id \notin DOMAIN js THEN js
  ELSE [js EXCEPT ![id].status = "running", ![id].result = Some(result)]

\* queueClient.ts 45-50
CompleteJob(js, id, result) ==
  IF id \notin DOMAIN js THEN js
  ELSE [js EXCEPT ![id].status = "completed", ![id].result = Some(result)]

\* queueClient.ts 51-56
ApiFailJob(js, id, error) ==
  IF id \notin DOMAIN js THEN js
  ELSE [js EXCEPT ![id].status = "failed", ![id].error = Some(error)]

\* What engineClient.runPipeline(source) resolves with, and the message it
\* rejects with.
PipelineResult(source) == <<"pipeline", source>>
PipelineError == "stage failed"

\* What a step of the API process leaves alone.
apiFrame ==
  <<jobs, results, activeJobs, jobsStarted, jobsCompleted, jobsFailed,
    activeGauge, inflight, log, ticks, maxConcurrentJobs, callerVars,
    ledgerVars, callVars, lifecycleVars, semverVars, hits, served>>

\* pipelineService.ts 10-19: the job is stored and the pipeline started in
\* the background.
EnqueuePipeline(source, rnd) ==
  /\ Len(pipelines) < MaxJobs
  /\ Cardinality(DOMAIN apiJobs) < MaxJobs
  /\ LET id == ApiJobId(now, rnd) IN
       /\ apiJobs' = PutJob(apiJobs, id, NewQueueJob(id, now, source))
       /\ pipelines' = Append(pipelines, [jobId |-> id, source |-> source])
  /\ UNCHANGED <<apiLog, now, apiFrame>>

\* pipelineService.ts 16: runPipeline resolved
PipelineResolve(k) ==
  /\ k \in 1..Len(pipelines)
  /\ apiJobs' = CompleteJob(apiJobs, pipelines[k].jobId,
                            PipelineResult(pipelines[k].source))
  /\ pipelines' = RemoveAt(pipelines, k)
  /\ UNCHANGED <<apiLog, now, apiFrame>>

\* pipelineService.ts 17: runPipeline rejected
PipelineReject(k) ==
  /\ k \in 1..Len(pipelines)
  /\ apiJobs' = ApiFailJob(apiJobs, pipelines[k].jobId, PipelineError)
  /\ pipelines' = RemoveAt(pipelines, k)
  /\ UNCHANGED <<apiLog, now, apiFrame>>

\* Date.now() moves on.
ApiClock ==
  /\ now < MaxClock
  /\ now' = now + 1
  /\ UNCHANGED <<apiVars, apiFrame>>

ApiInit ==
  /\ ApiIdle
  /\ WorkerIdle /\ CallerIdle /\ LedgerIdle /\ CallIdle /\ LifecycleIdle
  /\ SemverIdle

ApiNext ==
  \/ \E source \in PipelineSources, rnd \in ApiRandVals :
       EnqueuePipeline(source, rnd)
  \/ \E k \in 1..MaxJobs : PipelineResolve(k)
  \/ \E k \in 1..MaxJobs : PipelineReject(k)
  \/ ApiClock

ApiSpec == ApiInit /\ [][ApiNext]_vars

(* C28: every failure caught while processing a job leaves a log record     *)
(* carrying the job's id: a pipeline job the API marked failed has an error *)
(* record in the API's log.                                                 *)
C28_FailuresLogged ==
  \A id \in DOMAIN apiJobs :
    apiJobs[id].status = "failed" =>
      \E rec \in apiLog : rec.level = "error" /\ rec.jobId = id

(* ======================================================================= *)
(* Addressing: the program-derived address each instruction builder and     *)
(* each fetcher of the SDK computes from a namespace tag and a key. An      *)
(* address is modelled by the seeds it is hashed from.                      *)
(* ======================================================================= *)

\* registerRepo.ts 24-27
RegisterRepoPda(args) == FindProgramAddress(<<"repo", args.repoKey>>)

\* updateRepo.ts (part_013 73-76)
UpdateRepoPda(args) == FindProgramAddress(<<"repo", args.repoKey>>)

\* registerModule.ts (part_013 24-27)
RegisterModulePda(args) == FindProgramAddress(<<"module", args.moduleKey>>)

\* updateModule.ts (updateFork.ts 63-66)
UpdateModulePda(args) == FindProgramAddress(<<"module", args.moduleKey>>)

\* The entity kinds with keyed addresses, the operations deriving them and
\* the keys derived from.
EntityKinds == {"fork", "repo", "module"}
AddressOps == {"create", "update", "fetch"}
AddressKeys == PublicKeys \cup ForkKeys
Derivations == [op : AddressOps, kind : EntityKinds, key : AddressKeys]

\* The address the operation derives, through the code of that operation.
DerivedAddress(d) ==
  CASE d.op = "create" /\ d.kind = "fork" ->
         BuildCreateForkInstruction(
           [forkKey |-> d.key, parent |-> Undefined, label |-> "alpha",
            tags |-> "t1", metadataUri |-> Undefined]).fork
    [] d.op = "update" /\ d.kind = "fork" ->
         BuildUpdateForkInstruction(
           [forkKey |-> d.key, label |-> Undefined, tags |-> Undefined,
            metadataUri |-> Undefined, isActive |-> Undefined]).fork
    [] d.op = "fetch" /\ d.kind = "fork" ->
         AddressRead([fn |-> "fetchForkAccount", key |-> d.key])
    [] d.op = "create" /\ d.kind = "repo" -> RegisterRepoPda([repoKey |-> d.key])
    [] d.op = "update" /\ d.kind = "repo" -> UpdateRepoPda([repoKey |-> d.key])
    [] d.op = "fetch" /\ d.kind = "repo" ->
         AddressRead([fn |-> "fetchRepoAccount", key |-> d.key])
    [] d.op = "create" /\ d.kind = "module" ->
         RegisterModulePda([moduleKey |-> d.key])
    [] d.op = "update" /\ d.kind = "module" ->
         UpdateModulePda([moduleKey |-> d.key])
    [] d.op = "fetch" /\ d.kind = "module" ->
         AddressRead([fn |-> "fetchModuleAccount", key |-> d.key])

\* Two derivations are made and their addresses kept.
CallDerive ==
  /\ callResult = Nothing
  /\ callResult' = [a |-> DerivedAddress(callArgs.a),
                    b |-> DerivedAddress(callArgs.b)]
  /\ UNCHANGED <<callArgs, callFrame>>

AddressInit ==
  /\ callArgs \in [a : Derivations, b : Derivations]
  /\ callResult = Nothing
  /\ WorkerIdle /\ CallerIdle /\ LedgerIdle /\ LifecycleIdle /\ SemverIdle
  /\ ApiIdle

AddressNext == CallDerive

AddressSpec == AddressInit /\ [][AddressNext]_vars

(* C29: create, update and fetch of one entity kind derive the same address *)
(* for the same key, from the tag "fork", "repo" or "module" of the kind,   *)
(* and two different kinds never derive the same address for the same key.  *)
C29_NamespacedAddresses ==
  callResult # Nothing =>
    /\ callResult.a = FindProgramAddress(<<callArgs.a.kind, callArgs.a.key>>)
    /\ (callArgs.a.kind = callArgs.b.kind /\ callArgs.a.key = callArgs.b.key) =>
         callResult.a = callResult.b
    /\ (callArgs.a.kind # callArgs.b.kind /\ callArgs.a.key = callArgs.b.key) =>
         callResult.a # callResult.b

\* A fork is created and fetched at one address, which is not the address
\* of the repository of the same key.
C29_Witness ==
  /\ callResult # Nothing
  /\ callArgs.a = [op |-> "create", kind |-> "fork", key |-> "keyA"]
  /\ callArgs.b = [op |-> "fetch", kind |-> "fork", key |-> "keyA"]
  /\ callResult.a = callResult.b
  /\ callResult.a # DerivedAddress([op |-> "fetch", kind |-> "repo", key |-> "keyA"])

(* ======================================================================= *)
(* The global metrics account as the SDK reads it                          *)
(* (packages/sdk/src/queries/getGlobalStats.ts), over the fork ledger.      *)
(* ======================================================================= *)

CounterNames ==
  {"totalRepos", "totalModules", "totalForks", "totalObservations",
   "totalLinesOfCode", "totalFilesProcessed"}

\* The metrics account the program keeps: the fork counter of the ledger,
\* the other counters untouched by fork instructions.
MetricsAccount(forks) ==
  [c \in CounterNames |-> IF c = "totalForks" THEN Some(Bn(forks)) ELSE Some(Bn(0))]

\* getGlobalStats.ts 17-29 reading the fork counter under a name the account
\* does not have, so that ?? 0 applies.
GetGlobalStatsForksUnread(acc, fetched) ==
  IF ~fetched THEN Null
  ELSE Some([c \in CounterNames |->
               IF c = "totalForks" THEN ToNumber(Coalesce(Undefined, Some(Num(0)))[2])
               ELSE ToNumber(Coalesce(acc[c], Some(Num(0)))[2])])

\* getGlobalStats.ts 17-29: BigInt(acc.x ?? 0) of each counter, or null when
\* the read fails.
GetGlobalStats(acc, fetched) ==
  IF ~fetched THEN Null
  ELSE Some([c \in CounterNames |-> ToNumber(Coalesce(acc[c], Some(Num(0)))[2])])

\* The snapshot getGlobalStats returns in the current state.
GlobalStats == GetGlobalStats(MetricsAccount(totalForks), TRUE)[2]

\* An instruction has just been executed.
Executed == Len(outcomes') = Len(outcomes) + 1

C30_Step ==
  LET before == GlobalStats
      after  == GlobalStats'
  IN  /\ \A c \in CounterNames : after[c] >= before[c]
      /\ (Executed /\ LastOutcome.tx.method = "createFork"
                   /\ LastOutcome.result = "ok") =>
           after.totalForks > before.totalForks
      /\ (Executed /\ (LastOutcome.tx.method = "updateFork"
                       \/ LastOutcome.result # "ok")) =>
           after = before

(* C30: no step lowers a global counter, every successful fork creation     *)
(* raises totalForks, and a failed creation or an update leaves every       *)
(* counter as it was.                                                       *)
C30_CountersMonotone == [][C30_Step]_vars

\* A creation succeeded and a second creation of the same key failed: the
\* fork counter stands at one.
C30_Witness ==
  /\ Len(outcomes) = 2
  /\ outcomes[1].tx.method = "createFork" /\ outcomes[1].result = "ok"
  /\ outcomes[2].tx.method = "createFork"
  /\ outcomes[2].result = "AlreadyExists"
  /\ GlobalStats.totalForks = 1

(* ======================================================================= *)
(* Further properties of the worker loop (services/worker/src/index.ts).   *)
(* ======================================================================= *)

C31_Conserved ==
  /\ jobsStarted = jobsCompleted + jobsFailed + activeJobs
  /\ activeGauge = Len(inflight)

C31_NoDecrease ==
  /\ jobsStarted' >= jobsStarted
  /\ jobsCompleted' >= jobsCompleted
  /\ jobsFailed' >= jobsFailed

(* C31: between steps of the worker loop jobsStarted = jobsCompleted +      *)
(* jobsFailed + activeJobs, the activeJobs gauge is the number of handler   *)
(* invocations in flight, and the three counters never decrease.            *)
C31_MetricsConserved == []C31_Conserved /\ [][C31_NoDecrease]_vars

\* Two jobs were started: one failed and one is still running.
C31_Witness ==
  /\ jobsStarted = 2
  /\ jobsFailed = 1
  /\ jobsCompleted = 0
  /\ activeJobs = 1
  /\ Len(inflight) = 1

\* The oldest unstarted job has no registered handler.
Blocked ==
  /\ QueueNext(jobs) # 0
  /\ ~HasHandler(jobs[QueueNext(jobs)].type)

C32_NothingBehindStarted ==
  \A i \in 1..Len(jobs) : \A j \in (i + 1)..Len(jobs) :
    ~HasHandler(jobs[i].type) => jobs[j].startedAt = Unset

C32_BlockedStep ==
  Blocked =>
    /\ QueueNext(jobs') = QueueNext(jobs)
    /\ jobs'[QueueNext(jobs)] = jobs[QueueNext(jobs)]
    /\ \A j \in QueueNext(jobs)..Len(jobs') : jobs'[j].startedAt = Unset
    /\ jobsStarted' = jobsStarted

(* C32: while the oldest unstarted job has no handler, next() keeps         *)
(* returning that same job after every step, and no job enqueued after a    *)
(* job without a handler is ever started, whatever ticks fire and whatever  *)
(* slots are free.                                                          *)
C32_NoHandlerBlocksQueue == []C32_NothingBehindStarted /\ [][C32_BlockedStep]_vars

\* A job with a handler waits behind a job without one; every tick has
\* fired, the slots are free, and the waiting job is still unstarted.
C32_Witness ==
  /\ Len(jobs) = 2
  /\ ~HasHandler(jobs[1].type)
  /\ HasHandler(jobs[2].type)
  /\ jobs[2].startedAt = Unset
  /\ ticks = MaxTicks
  /\ activeJobs = 0
  /\ \E r \in log : r.msg = "No handler for job type" /\ r.jobId = jobs[1].id

C33_AtMostOnce ==
  /\ jobsStarted = NumStarted(jobs)
  /\ \A i \in 1..Len(jobs) :
       /\ jobs[i].attempts \in {0, 1}
       /\ jobs[i].attempts < jobs[i].maxAttempts
       /\ jobs[i].maxAttempts = DefaultMaxAttempts
       /\ Cardinality(InvocationsOf(i)) <= 1
       /\ Failed(jobs, i) => (Started(jobs, i) /\ QueueNext(jobs) # i)
       /\ ~(jobs[i].completedAt # Unset /\ jobs[i].attempts > 0)

C33_InvokedStep ==
  \A i \in 1..Len(jobs) :
    /\ Started(jobs, i) =>
         /\ jobs'[i].startedAt = jobs[i].startedAt
         /\ Cardinality(InvocationsOf(i)') <= Cardinality(InvocationsOf(i))
    /\ jobs'[i].attempts > jobs[i].attempts => InFlight(i) /\ ~InFlight(i)'

(* C33: a job's handler is invoked at most once: a started job stays        *)
(* started (also after a failure) and is never offered by next() again, so  *)
(* attempts is 0 or 1 and below maxAttempts = 3 in every reachable state,   *)
(* and no job is both completed and failed.                                 *)
C33_HandlerInvokedAtMostOnce == []C33_AtMostOnce /\ [][C33_InvokedStep]_vars

\* A job has failed once, every tick has fired, the slots are free, and
\* next() has nothing to offer.
C33_Witness ==
  /\ \E i \in 1..Len(jobs) : jobs[i].attempts = 1 /\ jobs[i].startedAt # Unset
  /\ ticks = MaxTicks
  /\ activeJobs = 0
  /\ QueueNext(jobs) = 0

(* ======================================================================= *)
(* The API's pipeline jobs when every generated id is new: Date.now() and  *)
(* Math.random() (queueClient.ts 29) never repeat an id already stored.    *)
(* ======================================================================= *)

EnqueueFreshPipeline(source, rnd) ==
  /\ ApiJobId(now, rnd) \notin DOMAIN apiJobs
  /\ EnqueuePipeline(source, rnd)

FreshApiNext ==
  \/ \E source \in PipelineSources, rnd \in ApiRandVals :
       EnqueueFreshPipeline(source, rnd)
  \/ \E k \in 1..MaxJobs : PipelineResolve(k)
  \/ \E k \in 1..MaxJobs : PipelineReject(k)
  \/ ApiClock

FreshApiSpec == ApiInit /\ [][FreshApiNext]_vars

\* The ids Date.now() and Math.random() can produce.
ApiJobIds == {ApiJobId(t, rnd) : t \in 1..MaxClock, rnd \in ApiRandVals}

\* The pipeline runs still outstanding for job id.
RunsOf(id) == {k \in 1..Len(pipelines) : pipelines[k].jobId = id}

C34_StatusShape ==
  \A id \in DOMAIN apiJobs :
    LET job == apiJobs[id] IN
      /\ job.status \in {"pending", "completed", "failed"}
      /\ job.status = "pending" =>
           /\ job.result = Undefined /\ job.error = Undefined
           /\ Cardinality(RunsOf(id)) = 1
      /\ job.status = "completed" =>
           /\ job.result # Undefined /\ job.error = Undefined
           /\ RunsOf(id) = {}
      /\ job.status = "failed" =>
           /\ job.error # Undefined /\ job.result = Undefined
           /\ RunsOf(id) = {}

C34_UnknownIdIgnored ==
  \A id \in ApiJobIds \ DOMAIN apiJobs :
    /\ CompleteJob(apiJobs, id, PipelineResult("repoA")) = apiJobs
    /\ ApiFailJob(apiJobs, id, PipelineError) = apiJobs

C34_StatusStep ==
  /\ \A id \in DOMAIN apiJobs :
       /\ id \in DOMAIN apiJobs'
       /\ apiJobs[id].status # "pending" => apiJobs'[id] = apiJobs[id]
       /\ apiJobs'[id].status # apiJobs[id].status =>
            /\ RunsOf(id) # {}
            /\ RunsOf(id)' = {}
  /\ \A id \in (DOMAIN apiJobs') \ (DOMAIN apiJobs) :
       apiJobs'[id].status = "pending"

PollTick ==
  /\ UNCHANGED nonWorkerVars
  /\ UNCHANGED <<ticks, now, maxConcurrentJobs>>
  /\ \/ TickBusy
     \/ TickEmpty
     \/ TickNoHandler
     \/ TickDispatch

DispatchNext ==
  \/ \E type \in EnqueueTypes, payload \in Payloads, rnd \in RandVals :
       Enqueue(type, payload, rnd)
  \/ ClockAdvance
  \/ PollTick
  \/ \E k \in 1..MaxJobs : StageResolve(k)
  \/ \E k \in 1..MaxJobs : HandlerResolve(k)
  \/ \E k \in 1..MaxJobs : HandlerReject(k)

DispatchSpec ==
  /\ Init /\ [][DispatchNext]_vars
  /\ WF_vars(PollTick)
  /\ \A i \in 1..MaxJobs : WF_vars(SettleJob(i))

C35_Drained ==
  (QueueNext(jobs) = 0 /\ inflight = <<>>) => (activeJobs = 0 /\ activeGauge = 0)

C35_EventuallyStarted ==
  \A i \in 1..MaxJobs :
    (i <= Len(jobs))
      ~> (i <= Len(jobs) /\ (Started(jobs, i)
                              \/ \E k \in 1..i : ~HasHandler(jobs[k].type)))

C35_SlotsReturn == (activeJobs > 0) ~> (activeJobs = 0)

(* C35: when ticks keep firing and every in-flight handler settles, every   *)
(* enqueued job with a handler for its own type and for the type of every   *)
(* job ahead of it is eventually started; whenever no unstarted job remains *)
(* and no handler is in flight activeJobs is 0, and occupied slots are      *)
(* eventually all returned.                                                 *)
C35_DispatchLive == []C35_Drained /\ C35_EventuallyStarted /\ C35_SlotsReturn

\* With a single slot, a second job waited for the first to settle and was
\* then started and settled too; every slot is free again.
C35_Witness ==
  /\ maxConcurrentJobs = 1
  /\ Len(jobs) = MaxJobs
  /\ \A i \in 1..Len(jobs) : Started(jobs, i) /\ Settled(jobs, i)
  /\ inflight = <<>>
  /\ activeJobs = 0

(* ======================================================================= *)
(* Several queue instances in one process.  The worker's jobs and results  *)
(* (jobQueue.ts 10-11) and the API's jobs (queueClient.ts 16) are declared *)
(* at module level; every object returned by createInMemoryJobQueue or     *)
(* createInMemoryQueueClient closes over them.  calls records, for every   *)
(* enqueue, the instance it went through.                                  *)
(* ======================================================================= *)

QueueInstances == {"queueA", "queueB"}
ApiClients == {"clientA", "clientB"}

\* Variant in which each call of createInMemoryJobQueue declares its own
\* store.
JobsBindingOwn(instance) == instance

\* jobQueue.ts 10 / queueClient.ts 16: the binding of the name jobs inside
\* the closures of an instance.
JobsBinding(instance) == "module"

\* The instances through which the stored jobs were enqueued, in order.
QueueOwners == SelectSeq(calls, LAMBDA c : c.store = "queue")
ApiOwners == SelectSeq(calls, LAMBDA c : c.store = "api")

\* The k-th smallest element of a set of numbers.
Nth(S, k) == CHOOSE i \in S : Cardinality({j \in S : j < i}) = k - 1

\* The array the name jobs denotes inside instance q, and where its elements
\* sit in the model's jobs.
SeenIndices(q) ==
  {i \in 1..Len(jobs) : JobsBinding(QueueOwners[i].instance) = JobsBinding(q)}
SeenJobs(q) ==
  [k \in 1..Cardinality(SeenIndices(q)) |-> jobs[Nth(SeenIndices(q), k)]]

\* The record the name jobs denotes inside API client c.
SeenIds(c) ==
  {id \in DOMAIN apiJobs :
     \E k \in 1..Len(ApiOwners) :
       /\ ApiOwners[k].key = id
       /\ JobsBinding(ApiOwners[k].instance) = JobsBinding(c)}

sharedFrame ==
  <<activeJobs, jobsStarted, jobsCompleted, jobsFailed, activeGauge, inflight,
    log, ticks, maxConcurrentJobs, ledgerVars, callVars, lifecycleVars,
    semverVars, pipelines, apiLog, hits, served>>

\* q.enqueue(type, payload)
InstEnqueue(q, type, payload, rnd) ==
  /\ Len(calls) < MaxJobs
  /\ jobs' = Append(jobs, NewJob(type, payload, now, rnd))
  /\ calls' = Append(calls, [store |-> "queue", instance |-> q,
                             key |-> JobId(now, rnd)])
  /\ ret' = Returned("enqueue", <<q>>, Len(jobs) + 1)
  /\ UNCHANGED <<results, apiJobs, now, sharedFrame>>

\* q.next()
InstNext(q) ==
  /\ LET seen == SeenJobs(q)
         n    == QueueNext(seen) IN
       ret' = Returned("next", <<q>>, IF n = 0 THEN Undefined ELSE Some(seen[n]))
  /\ UNCHANGED <<jobs, results, apiJobs, calls, now, sharedFrame>>

\* q.list()
InstList(q) ==
  /\ ret' = Returned("list", <<q>>, QueueList(SeenJobs(q)))
  /\ UNCHANGED <<jobs, results, apiJobs, calls, now, sharedFrame>>

\* q.markCompleted(job, result) on a job object the caller holds
InstMarkCompleted(q, i, result) ==
  /\ i \in 1..Len(jobs)
  /\ jobs[i].completedAt = Unset
  /\ jobs' = MarkCompletedJobs(jobs, i, now)
  /\ results' = MarkCompletedResults(results, jobs[i].id, result)
  /\ ret' = Returned("markCompleted", <<q, i>>, 0)
  /\ UNCHANGED <<apiJobs, calls, now, sharedFrame>>

\* c.enqueue(payload); the generated id is new
ClientEnqueue(c, payload, rnd) ==
  /\ Len(calls) < MaxJobs
  /\ ApiJobId(now, rnd) \notin DOMAIN apiJobs
  /\ LET id == ApiJobId(now, rnd) IN
       /\ apiJobs' = PutJob(apiJobs, id, NewQueueJob(id, now, payload))
       /\ calls' = Append(calls, [store |-> "api", instance |-> c, key |-> id])
       /\ ret' = Returned("clientEnqueue", <<c>>, id)
  /\ UNCHANGED <<jobs, results, now, sharedFrame>>

\* c.getJob(id)
ClientGetJob(c, id) ==
  /\ ret' = Returned("getJob", <<c, id>>,
                     IF id \in SeenIds(c) THEN Some(apiJobs[id]) ELSE Undefined)
  /\ UNCHANGED <<jobs, results, apiJobs, calls, now, sharedFrame>>

\* c.listJobs()
ClientListJobs(c) ==
  /\ ret' = Returned("listJobs", <<c>>, {apiJobs[id] : id \in SeenIds(c)})
  /\ UNCHANGED <<jobs, results, apiJobs, calls, now, sharedFrame>>

\* c.completeJob(id, result)
ClientCompleteJob(c, id) ==
  /\ id \in DOMAIN apiJobs
  /\ apiJobs[id].status = "pending"
  /\ apiJobs' = IF id \in SeenIds(c)
                THEN CompleteJob(apiJobs, id, PipelineResult(apiJobs[id].payload))
                ELSE apiJobs
  /\ ret' = Returned("completeJob", <<c, id>>, 0)
  /\ UNCHANGED <<jobs, results, calls, now, sharedFrame>>

SharedInit ==
  /\ WorkerIdle /\ CallerIdle /\ LedgerIdle /\ CallIdle /\ LifecycleIdle
  /\ SemverIdle /\ ApiIdle

\* The ids a client can ask for: those Math.random() can give at this time.
AskedIds == {ApiJobId(now, rnd) : rnd \in ApiRandVals}

SharedNext ==
  \/ \E q \in QueueInstances : InstEnqueue(q, "observeRepo", "repoA", "3fa9")
  \/ \E q \in QueueInstances : InstNext(q)
  \/ \E q \in QueueInstances : InstList(q)
  \/ \E i \in 1..MaxJobs : ConsumerStart(i)
  \/ \E q \in QueueInstances, i \in 1..MaxJobs :
       InstMarkCompleted(q, i, QueueResult(i))
  \/ \E c \in ApiClients, rnd \in ApiRandVals : ClientEnqueue(c, "repoA", rnd)
  \/ \E c \in ApiClients, id \in AskedIds : ClientGetJob(c, id)
  \/ \E c \in ApiClients : ClientListJobs(c)
  \/ \E c \in ApiClients, id \in AskedIds : ClientCompleteJob(c, id)

SharedSpec == SharedInit /\ [][SharedNext]_vars

C36_ReadStep ==
  /\ IsCall("list") => ret'.value = jobs
  /\ IsCall("next") =>
       ret'.value = IF QueueNext(jobs) = 0 THEN Undefined
                    ELSE Some(jobs[QueueNext(jobs)])
  /\ IsCall("getJob") =>
       ret'.value = IF ret'.args[2] \in DOMAIN apiJobs
                    THEN Some(apiJobs[ret'.args[2]]) ELSE Undefined
  /\ IsCall("listJobs") => ret'.value = {apiJobs[id] : id \in DOMAIN apiJobs}
  /\ IsCall("completeJob") => apiJobs'[ret'.args[2]].status = "completed"

(* C36: whatever instance a job was enqueued or completed through, list()   *)
(* and next() of every worker queue instance and getJob / listJobs of every *)
(* API client return it from the one store of the process, and a completion *)
(* through one instance takes effect on the job every instance sees.        *)
C36_OneStorePerProcess == [][C36_ReadStep]_vars

\* list() of one instance has returned a job that was enqueued through the
\* other instance and completed.
C36_Witness ==
  /\ ret.op = "list"
  /\ \E i \in 1..Len(ret.value) :
       /\ QueueOwners[i].instance # ret.args[1]
       /\ ret.value[i].completedAt # Unset

\* getJob of one API client has returned, completed, a job that was
\* enqueued through the other client.
C36_ClientWitness ==
  /\ ret.op = "getJob"
  /\ ret.value # Undefined
  /\ \E k \in 1..Len(ApiOwners) :
       /\ ApiOwners[k].key = ret.args[2]
       /\ ApiOwners[k].instance # ret.args[1]
  /\ apiJobs[ret.args[2]].status = "completed"

(* ======================================================================= *)
(* Lifecycle status under applyLifecycleEvent (shared-types metrics.ts).   *)
(* ======================================================================= *)

\* An optional timestamp does not go back: once set it stays set and does
\* not decrease.
NotBefore(old, new) ==
  old # Undefined => (new # Undefined /\ new[2] >= old[2])

C37_StatusStep ==
  applied'.last # applied.last \/ summary' # summary =>
    LET event == applied'.last[1] IN
      /\ summary.status = Some("error") => summary'.status = Some("error")
      /\ event.kind = "error" => summary'.status = Some("error")
      /\ event.kind # "error" =>
           summary'.status = IF summary.status = Undefined
                             THEN Some("created") ELSE summary.status
      /\ NotBefore(summary.lastErrorAt, summary'.lastErrorAt)
      /\ NotBefore(summary.lastObservationAt, summary'.lastObservationAt)

(* C37: once an error event has been applied the status is "error" after    *)
(* every later event; an event other than an error leaves a status that is  *)
(* set as it is and sets "created" when none is set; lastErrorAt and        *)
(* lastObservationAt, once set, never decrease.                             *)
C37_ErrorAbsorbing == [][C37_StatusStep]_vars

\* After an error, an older observation event was applied: the status is
\* still "error" and neither timestamp went back.
C37_Witness ==
  /\ summary.status = Some("error")
  /\ summary.lastErrorAt = Some(MaxTimestamp)
  /\ applied.last # <<>>
  /\ applied.last[1].kind = "observation-completed"
  /\ applied.last[1].timestamp < MaxTimestamp
  /\ summary.lastObservationAt # Undefined
  /\ summary.lastObservationAt[2] > applied.last[1].timestamp

(* ======================================================================= *)
(* Entity fetches and getGlobalStats over a connection that may fail.      *)
(* ======================================================================= *)

\* getGlobalStats.ts 12-15
MetricsPda == FindProgramAddress(<<"metrics">>)

\* The stores of FetchSpec, with or without a metrics account.
ReadStores ==
  Stores \cup
    {[a \in (DOMAIN s) \cup {MetricsPda} |->
        IF a = MetricsPda THEN MetricsAccount(1) ELSE s[a]] : s \in Stores}

\* getGlobalStats.ts 9-30 over a store
FetchGlobalStats(store, transportOk) ==
  LET r == AccountFetch(store, MetricsPda, transportOk) IN
    Return(GetGlobalStats(IF r[1] = "return" THEN r[2] ELSE <<>>, r[1] = "return"))

EntityFetches ==
  {"fetchForkAccount", "fetchRepoAccount", "fetchModuleAccount",
   "fetchConfigAccount", "getGlobalStats"}

ReadCalls ==
  {call \in FetchCalls : call.fn \in EntityFetches}
    \cup [fn : {"getGlobalStats"}, key : {"-"}, transportOk : BOOLEAN]

RunRead(store, call) ==
  IF call.fn = "getGlobalStats" THEN FetchGlobalStats(store, call.transportOk)
  ELSE RunFetch(store, call)

\* One read is made and settles.
CallRead(call) ==
  /\ callArgs' = call
  /\ callResult' = RunRead(accounts, call)
  /\ UNCHANGED fetchFrame

ReadInit ==
  /\ accounts \in ReadStores
  /\ totalForks = 0 /\ txs = <<>> /\ outcomes = <<>>
  /\ WorkerIdle /\ CallerIdle /\ CallIdle /\ LifecycleIdle /\ SemverIdle
  /\ ApiIdle

ReadNext == \E call \in ReadCalls : CallRead(call)

ReadSpec == ReadInit /\ [][ReadNext]_vars

\* The address the settled read looked at.
ReadTarget ==
  IF callArgs.fn = "getGlobalStats" THEN MetricsPda ELSE AddressRead(callArgs)

\* A store without any record.
EmptyStore == [a \in {} |-> Null]

(* C38: a fetchForkAccount, fetchRepoAccount, fetchModuleAccount,           *)
(* fetchConfigAccount or getGlobalStats whose storage read fails returns    *)
(* null, exactly what the same call returns over a working connection when  *)
(* the record is missing, whether or not the record is stored.              *)
C38_FailureLooksLikeAbsence ==
  callArgs # Nothing =>
    /\ callResult[1] = "return"
    /\ ~callArgs.transportOk =>
         /\ callResult = Return(Null)
         /\ callResult = RunRead(EmptyStore, [callArgs EXCEPT !.transportOk = TRUE])
    /\ (callArgs.transportOk /\ ReadTarget \notin DOMAIN accounts) =>
         callResult = Return(Null)
    /\ (callArgs.transportOk /\ ReadTarget \in DOMAIN accounts) =>
         callResult[2] # Null

\* A fork that is stored was fetched over a failing connection, and null
\* came back.
C38_Witness ==
  /\ callArgs # Nothing
  /\ callArgs.fn = "fetchForkAccount"
  /\ ~callArgs.transportOk
  /\ ReadTarget \in DOMAIN accounts
  /\ callResult = Return(Null)

\* The same for getGlobalStats with the metrics account stored.
C38_StatsWitness ==
  /\ callArgs # Nothing
  /\ callArgs.fn = "getGlobalStats"
  /\ ~callArgs.transportOk
  /\ MetricsPda \in DOMAIN accounts
  /\ callResult = Return(Null)

(* ======================================================================= *)
(* The API's rate limiter (services/api/src/middleware/rateLimiter.ts).    *)
(* hits is the module-level record; served counts, per key, the requests   *)
(* passed on to next() in the key's current window, and holds the answer   *)
(* to the last request.  Strings are tuples of characters.                 *)
(* ======================================================================= *)

MaxRequests == 3

\* rateLimiter.ts 13-14
WINDOW_MS == 60000
MAX_HITS == 300

\* The requests that arrive: req.ip, req.connection.remoteAddress (empty
\* when the framework gives none) and req.path.
Requests ==
  {[ip |-> <<":", ":", "1">>, remoteAddress |-> <<":", ":", "1">>, path |-> <<"/", "a">>],
   [ip |-> <<>>, remoteAddress |-> <<":", ":", "1">>, path |-> <<"/", "b">>],
   [ip |-> <<>>, remoteAddress |-> <<>>, path |-> <<"/", "a">>]}

\* rateLimiter.ts 19: req.ip || req.connection.remoteAddress || "unknown"
RequestIp(req) ==
  IF req.ip # <<>> THEN req.ip
  ELSE IF req.remoteAddress # <<>> THEN req.remoteAddress
  ELSE <<"u", "n", "k", "n", "o", "w", "n">>

\* rateLimiter.ts 20: `${ip}:${req.path}`
HitKey(req) == RequestIp(req) \o <<":">> \o req.path

HitKeys == {HitKey(req) : req \in Requests}

\* Variant of the test of line 24 that also renews a window at the very
\* instant it ends.
WindowOverAt(store, key, t) == key \notin DOMAIN store \/ store[key].resetAt <= t

\* rateLimiter.ts 24: !info || info.resetAt < now
WindowOver(store, key, t) == key \notin DOMAIN store \/ store[key].resetAt < t

\* rateLimiter.ts 23-32: the record of the key after the request is counted
CountHit(store, key, t) ==
  IF WindowOver(store, key, t)
  THEN [count |-> 0 + 1, resetAt |-> t + WINDOW_MS]
  ELSE [store[key] EXCEPT !.count = @ + 1]

\* rateLimiter.ts 34-38
Answer(info) ==
  IF info.count > MAX_HITS THEN Throw("TooManyRequestsError") ELSE Return("next")

rateFrame ==
  <<jobs, results, activeJobs, jobsStarted, jobsCompleted, jobsFailed,
    activeGauge, inflight, log, ticks, maxConcurrentJobs, callerVars,
    ledgerVars, callVars, lifecycleVars, semverVars, apiJobs, pipelines, apiLog>>

\* rateLimiter(req, res, next)
RateLimiter(req) ==
  /\ served.requests < MaxRequests
  /\ LET key    == HitKey(req)
         info   == CountHit(hits, key, now)
         before == IF WindowOver(hits, key, now) THEN 0 ELSE served.passed[key]
         answer == Answer(info) IN
       /\ hits' = [k \in (DOMAIN hits) \cup {key} |-> IF k = key THEN info ELSE hits[k]]
       /\ served' =
            [requests |-> served.requests + 1,
             passed   |-> [k \in (DOMAIN hits) \cup {key} |->
                             IF k # key THEN served.passed[k]
                             ELSE IF answer = Return("next") THEN before + 1
                             ELSE before],
             last     |-> <<[key |-> key, at |-> now, answer |-> answer]>>]
  /\ UNCHANGED <<now, rateFrame>>

\* Date.now() moves on between two requests.
RateClock ==
  /\ now < WINDOW_MS + 1 + MaxClock
  /\ now' = now + 1
  /\ UNCHANGED <<hits, served, rateFrame>>

\* The smaller of two numbers.
Min(a, b) == IF a <= b THEN a ELSE b

\* The records a key may have when the requests start to arrive: a window
\* that ended a millisecond before the first instant of the model or ends
\* at it, in which all but one, or all, of the allowed requests were made.
StartedWindows ==
  [count : {MAX_HITS - 1, MAX_HITS}, resetAt : {WINDOW_MS, WINDOW_MS + 1}]

HitStores == UNION {[S -> StartedWindows] : S \in SUBSET HitKeys}

RateInit ==
  /\ CallerIdle /\ LedgerIdle /\ CallIdle /\ LifecycleIdle /\ SemverIdle
  /\ apiJobs = <<>> /\ pipelines = <<>> /\ apiLog = {}
  /\ jobs = <<>> /\ results = <<>> /\ activeJobs = 0 /\ jobsStarted = 0
  /\ jobsCompleted = 0 /\ jobsFailed = 0 /\ activeGauge = 0 /\ inflight = <<>>
  /\ log = {} /\ ticks = 0 /\ maxConcurrentJobs = 1
  /\ now = WINDOW_MS + 1
  /\ hits \in HitStores
  /\ served = [requests |-> 0,
               passed   |-> [k \in DOMAIN hits |-> Min(hits[k].count, MAX_HITS)],
               last     |-> <<>>]

RateNext ==
  \/ \E req \in Requests : RateLimiter(req)
  \/ RateClock

RateSpec == RateInit /\ [][RateNext]_vars

C39_Bounded ==
  /\ DOMAIN served.passed = DOMAIN hits
  /\ \A key \in DOMAIN hits :
       /\ served.passed[key] <= MAX_HITS
       /\ served.passed[key] = Min(hits[key].count, MAX_HITS)
       /\ hits[key].count >= 1
  /\ \A r1, r2 \in Requests : r1 # r2 => HitKey(r1) # HitKey(r2)

C39_RequestStep ==
  served'.requests # served.requests =>
    LET a   == served'.last[1]
        key == a.key IN
      /\ \A k \in HitKeys \ {key} :
           /\ k \in DOMAIN hits' <=> k \in DOMAIN hits
           /\ k \in DOMAIN hits =>
                (hits'[k] = hits[k] /\ served'.passed[k] = served.passed[k])
      /\ (key \notin DOMAIN hits \/ now > hits[key].resetAt) =>
           /\ hits'[key] = [count |-> 1, resetAt |-> now + WINDOW_MS]
           /\ a.answer = Return("next")
      /\ (key \in DOMAIN hits /\ now <= hits[key].resetAt) =>
           /\ hits'[key].resetAt = hits[key].resetAt
           /\ hits'[key].count = hits[key].count + 1
           /\ a.answer = IF served.passed[key] >= MAX_HITS
                         THEN Throw("TooManyRequestsError") ELSE Return("next")

(* C39: for every (client IP, path) key at most 300 requests are passed on  *)
(* between the start of a window and its resetAt = start + 60000; a further *)
(* request up to and at resetAt is rejected with TooManyRequests, a request *)
(* strictly after resetAt opens a fresh window and passes, and a request    *)
(* under one key leaves the records of all other keys as they are.          *)
C39_RateBounded == []C39_Bounded /\ [][C39_RequestStep]_vars

\* A request arrived exactly at resetAt of a window that had passed 300
\* requests and was rejected, while another key holds a window of its own.
C39_Witness ==
  /\ served.last # <<>>
  /\ served.last[1].answer = Throw("TooManyRequestsError")
  /\ served.last[1].at = hits[served.last[1].key].resetAt
  /\ served.passed[served.last[1].key] = MAX_HITS
  /\ \E k \in DOMAIN hits : k # served.last[1].key /\ served.passed[k] < MAX_HITS

\* A request arrived one millisecond after resetAt of a full window: a
\* fresh window was opened and the request passed.
C39_FreshWindowWitness ==
  /\ served.last # <<>>
  /\ served.last[1].answer = Return("next")
  /\ hits[served.last[1].key] =
       [count |-> 1, resetAt |-> served.last[1].at + WINDOW_MS]
  /\ served.requests = 1
  /\ served.last[1].at = WINDOW_MS + 1

====
